---- MODULE Spec2Model ----
(***************************************************************************)
(* lorax-composer: the path from a stored blueprint to a queued build.     *)
(*                                                                         *)
(* start_build, compose_types, get_extra_pkgs and the kickstart writers    *)
(* are translated from src/pylorax/api/compose.py.  The blueprint store    *)
(* (pylorax.api.recipes), the resolver handle (pylorax.api.dnfbase,        *)
(* pylorax.api.projects) and the queue worker (pylorax.api.queue) are not  *)
(* part of the source tree at hand; they are modelled from spec.md and     *)
(* from what tests/pylorax/test_server.py observes of them.                *)
(*                                                                         *)
(* The kickstart templates of share/composer and pykickstart are not part  *)
(* of it either: a template is one of a few shapes, and a parsed command   *)
(* line keeps its option values and prints them in a fixed option order.   *)
(*                                                                         *)
(* One branch (master) of the store is modelled.  An optional value is a   *)
(* sequence of length 0 or 1.  A text line is a sequence of string tokens. *)
(***************************************************************************)
EXTENDS Integers, Sequences, FiniteSets, TLC

\* ------------------------------------------------------------------ bounds
\* commits kept in the history of one blueprint name
MaxCommits == 3
\* versions of the packages published in the repositories
MaxPub == 2

\* ---------------------------------------------------------------- universe
Names == {"bp"}
Threads == {"t1", "t2"}
BuildIds == {"b1", "b2"}
SourceNames == {"s1", "s2"}
NoThread == "-"
NoBuild == "-"

\* the order of dbo.repos.iter_enabled() and of sorted(): by name
Rank(x) ==
    CASE x = "s1" -> 1 [] x = "s2" -> 2 [] x = "s3" -> 3
      [] x = "firewalld" -> 1 [] x = "kernel" -> 2 [] x = "langpacks-en" -> 3
      [] x = "nopkg" -> 4 [] x = "samba" -> 5 [] x = "tmux" -> 6
      [] x = "Xaw3d" -> 0 [] x = "xaw3d" -> 7
      [] x = "22:tcp" -> 1 [] x = "80:tcp" -> 2
      [] x = "cockpit" -> 1 [] x = "sshd" -> 2 [] x = "telnet" -> 3
      [] x = "b1" -> 1 [] x = "b2" -> 2
      [] OTHER -> 9

RECURSIVE SortedSeq(_)
SortedSeq(S) ==
    IF S = {} THEN <<>>
    ELSE LET m == CHOOSE x \in S : \A y \in S : Rank(x) <= Rank(y)
         IN  <<m>> \o SortedSeq(S \ {m})

Range(s) == {s[i] : i \in 1..Len(s)}

\* --------------------------------------------------------------- blueprints
\* semantic versions are triples <<major, minor, patch>>
VersionLE(a, b) ==
    \/ a[1] < b[1]
    \/ a[1] = b[1] /\ a[2] < b[2]
    \/ a[1] = b[1] /\ a[2] = b[2] /\ a[3] <= b[3]

VersionLT(a, b) == VersionLE(a, b) /\ a # b

BumpPatch(v) == <<v[1], v[2], v[3] + 1>>

\* customizations documents: a function whose domain holds the keys present
CustHost == [hostname |-> "host1"]
CustUserNoName == [user |-> << [password |-> "pw"] >>]
CustGroupNoName == [user |-> << [name |-> "bart"] >>, group |-> << [gid |-> "7"] >>]

\* the document bodies a client posts: packages, repos.git entries, customizations
BodyBase == [packages |-> {"tmux"}, git |-> <<>>, cust |-> <<>>]
BodyAlt == [packages |-> {"samba", "tmux"}, git |-> <<>>, cust |-> <<CustHost>>]
BodyConflict == [packages |-> {"nopkg"}, git |-> <<>>, cust |-> <<>>]
BodyBadGit == [packages |-> {"tmux"}, git |-> <<"badref">>, cust |-> <<>>]
BodyGoodGit == [packages |-> {"tmux"}, git |-> <<"goodref">>, cust |-> <<>>]

\* a blueprint with modules: a module that is a package as well, one name
\* with two version globs, and a package name with a capital
BodyModules ==
    [packages |-> {"tmux", "Xaw3d"},
     modules |-> << <<"tmux", "*">>, <<"tmux", "2.*">>, <<"kernel", "*">> >>,
     git |-> <<>>, cust |-> <<>>]
BodyUserNoName == [packages |-> {"tmux"}, git |-> <<>>, cust |-> <<CustUserNoName>>]
BodyGroupNoName == [packages |-> {"tmux"}, git |-> <<>>, cust |-> <<CustGroupNoName>>]

Bodies ==
    {BodyBase, BodyAlt, BodyConflict, BodyBadGit, BodyGoodGit, BodyUserNoName, BodyGroupNoName}

\* customizations of the kernel command line, the locale, the time zone, the
\* firewall, the services and the accounts
CustKernel == [kernel |-> [append |-> "nosmt=force"]]
CustLocale ==
    [locale |-> [languages |-> <<"fr_FR.UTF-8", "en_US.UTF-8">>, keyboard |-> "de"],
     timezone |-> [timezone |-> "Europe/Paris", ntpservers |-> <<"ntp.example">>]]
CustFirewall ==
    [firewall |-> [ports |-> <<"22:tcp">>, services |-> [enabled |-> <<"telnet">>]],
     services |-> [enabled |-> <<"sshd", "cockpit">>, disabled |-> <<"telnet">>]]
CustRootKey == [user |-> << [name |-> "root", key |-> "ssh-rsa AAA"] >>]
CustRootPlain == [user |-> << [name |-> "root", password |-> "secret"] >>]
CustRootTwice ==
    [user |-> << [name |-> "root", password |-> "secret"],
                 [name |-> "root", key |-> "ssh-rsa AAA"] >>]
CustAccounts ==
    [hostname |-> "host1",
     kernel |-> [name |-> "kernel-debug"],
     sshkey |-> << [user |-> "root", key |-> "ssh-rsa BBB"] >>,
     user |-> << [name |-> "root", password |-> "$6$hash", key |-> "ssh-rsa AAA"],
                 [name |-> "bart", password |-> "plain", groups |-> "wheel"],
                 [name |-> "lisa", key |-> "ssh-rsa CCC", uid |-> "1001"] >>,
     group |-> << [name |-> "students", gid |-> "7"], [name |-> "bart"], [name |-> "root"],
                  [name |-> "lisa", gid |-> "8"] >>]

\* the bodies the kickstart of a build is written from
KsBodies ==
    {BodyBase, BodyGoodGit, BodyGroupNoName, BodyModules,
     [packages |-> {"samba", "tmux"}, git |-> <<>>, cust |-> <<CustKernel>>],
     [packages |-> {"kernel", "samba"}, git |-> <<>>, cust |-> <<CustLocale>>],
     [packages |-> {"tmux"}, git |-> <<>>, cust |-> <<CustFirewall>>],
     [packages |-> {"tmux"}, git |-> <<>>, cust |-> <<CustRootKey>>],
     [packages |-> {"tmux"}, git |-> <<>>, cust |-> <<CustRootPlain>>],
     [packages |-> {"tmux"}, git |-> <<>>, cust |-> <<CustRootTwice>>],
     [packages |-> {"tmux"}, git |-> <<>>, cust |-> <<CustAccounts>>]}

MkBlueprint(n, v, body) == [name |-> n, version |-> v, body |-> body]

\* the blueprints of tests/pylorax/blueprints that setUpClass imports: version 0.0.1
InitialVersion == <<0, 0, 1>>
PostedVersions == {<<0, 0, 1>>, <<0, 2, 0>>}

\* ------------------------------------------------------------------- state
VARIABLES
    commits,        \* store: name -> the commits of <name>.toml, oldest first
    present,        \* store: name -> whether <name>.toml is in the head tree
    workspace,      \* store: name -> the workspace overlay, if any
    tags,           \* store: name -> the tagged commit ids, revision 1 first
    gitlock,        \* the thread inside "with gitlock.lock", or NoThread
    since_delete,   \* history: name -> "live", "deleted" or "touched"
    repo_pub,       \* the package version the repositories publish now
    sources,        \* the enabled sources of the on-disk configuration
    dbo_meta,       \* the package version the dnf.Base object has loaded
    dbo_repos,      \* the enabled repos of the dnf.Base object
    expired,        \* whether the metadata of the dnf.Base object is due
    dnflock,        \* the thread inside "with dnflock.lock", or NoThread
    machine,        \* os.uname().machine
    sb,             \* thread -> the frame of its start_build call
    used,           \* the build ids uuid4 has handed out
    dirs,           \* the build ids whose results/<id> directory exists
    files,          \* build id -> file name -> content, of results/<id>
    queue_new,      \* queue/new: the symlinks, oldest first
    queue_run,      \* queue/run: the symlinks
    status_hist,    \* history: build id -> every value written to STATUS
    worker,         \* the frame of the queue monitor
    canceller,      \* the frame of a uuid_cancel call
    handed          \* history: the build ids given to the image builder

storeVars == <<commits, present, workspace, tags, gitlock, since_delete>>
dnfVars == <<repo_pub, sources, dbo_meta, dbo_repos, expired, dnflock>>
queueVars == <<queue_new, queue_run, status_hist, worker, canceller, handed>>
resultVars == <<used, dirs, files>>
vars == <<storeVars, dnfVars, machine, sb, resultVars, queueVars>>

\* ------------------------------------------------- blueprint store (recipes)
HeadOpt(n) ==
    IF n \in Names /\ present[n] THEN <<commits[n][Len(commits[n])]>> ELSE <<>>

WorkspaceOpt(n) == IF n \in Names THEN workspace[n] ELSE <<>>

\* recipes.read_recipe_and_id: the committed head and its commit id, never
\* the workspace; <<>> when <name>.toml is not in the head tree
read_recipe_and_id(n) ==
    IF HeadOpt(n) = <<>> THEN <<>>
    ELSE <<[commit_id |-> HeadOpt(n)[1].id, recipe |-> HeadOpt(n)[1].bp]>>

CommitById(n, cid) ==
    IF n \in Names /\ cid \in 1..Len(commits[n]) THEN <<commits[n][cid]>> ELSE <<>>

\* the blueprint a reading operation sees: the overlay shadows the head
Effective(n) == IF WorkspaceOpt(n) # <<>> THEN WorkspaceOpt(n)
                ELSE IF HeadOpt(n) # <<>> THEN <<HeadOpt(n)[1].bp>> ELSE <<>>

List == {n \in Names : present[n]}

\* info as it would be answering from the committed head alone
Info_committed(n) ==
    IF HeadOpt(n) = <<>>
    THEN [err |-> "UnknownBlueprint", bp |-> <<>>, changed |-> FALSE]
    ELSE [err |-> "", bp |-> <<HeadOpt(n)[1].bp>>, changed |-> FALSE]

Info(n) ==
    IF Effective(n) = <<>>
    THEN [err |-> "UnknownBlueprint", bp |-> <<>>, changed |-> FALSE]
    ELSE [err |-> "", bp |-> Effective(n),
          changed |-> /\ WorkspaceOpt(n) # <<>>
                      /\ (HeadOpt(n) = <<>> \/ WorkspaceOpt(n)[1] # HeadOpt(n)[1].bp)]

BlueprintDepsolveErr(n) == IF Effective(n) = <<>> THEN "UnknownBlueprint" ELSE ""

BlueprintFreezeErr(n) == IF Effective(n) = <<>> THEN "UnknownBlueprint" ELSE ""

\* diff/<name>/NEWEST/WORKSPACE: NEWEST is the head, WORKSPACE the overlay or,
\* without one, the head again
DiffNewestWorkspaceErr(n) == IF HeadOpt(n) = <<>> THEN "UnknownBlueprint" ELSE ""

TagErr(n) == IF HeadOpt(n) = <<>> THEN "UnknownBlueprint" ELSE ""

Changes(n) == [i \in 1..Len(commits[n]) |-> commits[n][i].id]

\* New as it would be committing the version as posted
NewVersion_posted(n, v) == v

\* the version New commits: bumped past the head's when it does not exceed it
NewVersion(n, v) ==
    IF HeadOpt(n) # <<>> /\ VersionLE(v, HeadOpt(n)[1].bp.version)
    THEN BumpPatch(HeadOpt(n)[1].bp.version)
    ELSE v

\* a commit of <name>.toml: its identifier, its message and the content
Commit(n, bp, msg) ==
    commits' = [commits EXCEPT ![n] = Append(@, [id |-> Len(@) + 1, msg |-> msg, bp |-> bp])]

New(n, v, body) ==
    /\ gitlock = NoThread
    /\ Len(commits[n]) < MaxCommits
    /\ Commit(n, MkBlueprint(n, NewVersion(n, v), body), "saved")
    /\ present' = [present EXCEPT ![n] = TRUE]
    /\ workspace' = [workspace EXCEPT ![n] = <<>>]
    /\ since_delete' = [since_delete EXCEPT ![n] = "live"]
    /\ UNCHANGED <<tags, gitlock>>

WorkspaceWrite(n, v, body) ==
    /\ gitlock = NoThread
    /\ workspace' = [workspace EXCEPT ![n] = <<MkBlueprint(n, v, body)>>]
    /\ since_delete' = [since_delete EXCEPT ![n] = IF @ = "live" THEN @ ELSE "touched"]
    /\ UNCHANGED <<commits, present, tags, gitlock>>

WorkspaceDelete(n) ==
    /\ gitlock = NoThread
    /\ workspace[n] # <<>>
    /\ workspace' = [workspace EXCEPT ![n] = <<>>]
    /\ UNCHANGED <<commits, present, tags, gitlock, since_delete>>

\* Delete as it would be removing the committed entry alone
Delete_committed(n) ==
    /\ gitlock = NoThread
    /\ present[n]
    /\ present' = [present EXCEPT ![n] = FALSE]
    /\ since_delete' = [since_delete EXCEPT ![n] = "deleted"]
    /\ UNCHANGED <<commits, workspace, tags, gitlock>>

Delete(n) ==
    /\ gitlock = NoThread
    /\ present[n]
    /\ present' = [present EXCEPT ![n] = FALSE]
    /\ workspace' = [workspace EXCEPT ![n] = <<>>]
    /\ since_delete' = [since_delete EXCEPT ![n] = "deleted"]
    /\ UNCHANGED <<commits, tags, gitlock>>

Undo(n, cid) ==
    /\ gitlock = NoThread
    /\ Len(commits[n]) < MaxCommits
    /\ CommitById(n, cid) # <<>>
    /\ Commit(n, CommitById(n, cid)[1].bp, "reverted")
    /\ present' = [present EXCEPT ![n] = TRUE]
    /\ since_delete' = [since_delete EXCEPT ![n] = IF @ = "live" THEN @ ELSE "touched"]
    /\ UNCHANGED <<workspace, tags, gitlock>>

Tag(n) ==
    /\ gitlock = NoThread
    /\ TagErr(n) = ""
    /\ HeadOpt(n)[1].id \notin Range(tags[n])
    /\ tags' = [tags EXCEPT ![n] = Append(@, HeadOpt(n)[1].id)]
    /\ UNCHANGED <<commits, present, workspace, gitlock, since_delete>>

\* ------------------------------------------- resolver handle (dnfbase, projects)
\* the packages a source's repository holds
Provides(s) ==
    IF s = "s1" THEN {"kernel", "tmux", "firewalld", "langpacks-en", "Xaw3d"} ELSE {"samba"}

Available(repos) == UNION {Provides(s) : s \in repos}

PkgBytes(p) == CASE p = "kernel" -> 7 [] p = "tmux" -> 3 [] p = "samba" -> 873800 [] OTHER -> 5

RECURSIVE SumBytes(_)
SumBytes(S) ==
    IF S = {} THEN 0
    ELSE LET p == CHOOSE x \in S : TRUE IN PkgBytes(p) + SumBytes(S \ {p})

\* projects_depsolve_with_size against a loaded dnf.Base object: a conflict
\* (ProjectsError) when a requested package is in no enabled repo, else the
\* installed size and the resolved packages at the loaded version, by name
projects_depsolve_with_size(meta, repos, pkgs) ==
    IF ~(pkgs \subseteq Available(repos))
    THEN [ok |-> FALSE, size |-> 0, deps |-> <<>>]
    ELSE [ok |-> TRUE, size |-> SumBytes(pkgs),
          deps |-> [i \in 1..Cardinality(pkgs) |->
                       [name |-> SortedSeq(pkgs)[i], version |-> meta]]]

\* DNFLock.lock and DNFLock.lock_check: both take the one lock; lock_check
\* re-opens the dnf.Base object whatever its age, lock only when it is due
Refreshes(mode) == mode = "lock_check" \/ expired

MetaAfter(mode) == IF Refreshes(mode) THEN repo_pub ELSE dbo_meta

ReposAfter(mode) == IF Refreshes(mode) THEN sources ELSE dbo_repos

AcquireDnf(t, mode) ==
    /\ dnflock = NoThread
    /\ dnflock' = t
    /\ dbo_meta' = MetaAfter(mode)
    /\ dbo_repos' = ReposAfter(mode)
    /\ expired' = (expired /\ ~Refreshes(mode))
    /\ UNCHANGED <<repo_pub, sources>>

\* a "with dnflock...:" block whose body raised: the lock is released on the way out
PassDnf(mode) ==
    /\ dnflock = NoThread
    /\ dbo_meta' = MetaAfter(mode)
    /\ dbo_repos' = ReposAfter(mode)
    /\ expired' = (expired /\ ~Refreshes(mode))
    /\ UNCHANGED <<repo_pub, sources, dnflock>>

ReleaseDnf(t) ==
    /\ dnflock = t
    /\ dnflock' = NoThread
    /\ UNCHANGED <<repo_pub, sources, dbo_meta, dbo_repos, expired>>

\* the repositories publish a new version of their packages
Publish ==
    /\ repo_pub < MaxPub
    /\ repo_pub' = repo_pub + 1
    /\ UNCHANGED <<sources, dbo_meta, dbo_repos, expired, dnflock>>
    /\ UNCHANGED <<storeVars, machine, sb, resultVars, queueVars>>

\* expire_secs pass since the last refresh
Expire ==
    /\ ~expired
    /\ expired' = TRUE
    /\ UNCHANGED <<repo_pub, sources, dbo_meta, dbo_repos, dnflock>>
    /\ UNCHANGED <<storeVars, machine, sb, resultVars, queueVars>>

\* any other handler's resolver operation (projects list, info, depsolve)
ProjectsOp ==
    /\ PassDnf("lock")
    /\ UNCHANGED <<storeVars, machine, sb, resultVars, queueVars>>

\* projects/source/new and projects/source/delete: rewrite the configuration
\* under the lock; the next acquire re-opens
SourceChange(s) ==
    /\ dnflock = NoThread
    /\ sources' = IF s \in sources THEN sources \ {s} ELSE sources \cup {s}
    /\ expired' = TRUE
    /\ UNCHANGED <<repo_pub, dbo_meta, dbo_repos, dnflock>>
    /\ UNCHANGED <<storeVars, machine, sb, resultVars, queueVars>>

\* ------------------------------------------------------------ compose types
\* the kickstart templates of share/composer, sorted
AllTypes ==
    <<"alibaba", "ami", "ext4-filesystem", "google", "live-iso", "openstack",
      "partitioned-disk", "qcow2", "tar", "vhd", "vmdk">>

\* compose_types as it would be with one list for every listed architecture
disable_map_uniform(m) ==
    CASE m \in {"arm", "armhfp", "aarch64", "ppc", "ppc64", "ppc64le", "s390", "s390x"}
           -> {"alibaba", "ami", "google", "hyper-v", "vhd", "vmdk"}
      [] OTHER -> {}

disable_map(m) ==
    CASE m \in {"arm", "armhfp", "ppc", "ppc64", "ppc64le", "s390", "s390x"}
           -> {"alibaba", "ami", "google", "hyper-v", "vhd", "vmdk"}
      [] m = "aarch64" -> {"alibaba", "google", "hyper-v", "vhd", "vmdk"}
      [] OTHER -> {}

compose_types(m) ==
    [i \in 1..Len(AllTypes) |-> <<AllTypes[i], AllTypes[i] \notin disable_map(m)>>]

\* dict(compose_types(share_dir)).get(compose_type): <<>> stands for None
type_enabled(m, ctype) ==
    IF \E i \in 1..Len(AllTypes) : compose_types(m)[i][1] = ctype
    THEN <<(CHOOSE e \in Range(compose_types(m)) : e[1] = ctype)[2]>>
    ELSE <<>>

LiveInstallPkgs == {"kernel"}

get_extra_pkgs(ctype) == IF ctype # "live-iso" THEN {} ELSE LiveInstallPkgs

\* start_build as it would be writing the size with int() in place of ceil()
PartitionMiB_truncating(installed, template) ==
    (12 * (installed + template)) \div (10 * 1048576)

\* part / --size: ceil(int(installed_size + template_size) * 1.2 / 1024**2)
PartitionMiB(installed, template) ==
    (12 * (installed + template) + 10 * 1048576 - 1) \div (10 * 1048576)

\* --------------------------------------------------------- kickstart writers
Has(d, k) == k \in DOMAIN d

IsCrypted(pw) == pw \in {"$2b$hash", "$6$hash", "$5$hash"}

\* add_customizations as it would be writing root like any other user
write_ks_root_as_user(user) ==
    [lines |->
        (IF Has(user, "key")
         THEN << <<"sshkey", "--user", user.name, user.key>> >> ELSE <<>>)
        \o << <<"user", "--name", user.name>> >>,
     wrote_rootpw |-> FALSE]

\* write_ks_root as it would be returning True whenever it is called
write_ks_root_claiming(user) ==
    [lines |->
        (IF Has(user, "key")
         THEN << <<"sshkey", "--user", user.name, user.key>> >> ELSE <<>>)
        \o (IF Has(user, "password")
            THEN << <<"rootpw",
                      IF IsCrypted(user.password) THEN "--iscrypted" ELSE "--plaintext",
                      user.password>> >>
            ELSE <<>>),
     wrote_rootpw |-> TRUE]

write_ks_root(user) ==
    [lines |->
        (IF Has(user, "key")
         THEN << <<"sshkey", "--user", user.name, user.key>> >> ELSE <<>>)
        \o (IF Has(user, "password")
            THEN << <<"rootpw",
                      IF IsCrypted(user.password) THEN "--iscrypted" ELSE "--plaintext",
                      user.password>> >>
            ELSE <<>>),
     wrote_rootpw |-> Has(user, "password")]

write_ks_user(user) ==
    (IF Has(user, "key")
     THEN << <<"sshkey", "--user", user.name, user.key>> >> ELSE <<>>)
    \o << <<"user", "--name", user.name>>
          \o (IF Has(user, "home") THEN <<"--homedir", user.home>> ELSE <<>>)
          \o (IF Has(user, "password")
              THEN <<IF IsCrypted(user.password) THEN "--iscrypted" ELSE "--plaintext",
                     "--password", user.password>>
              ELSE <<>>)
          \o (IF Has(user, "shell") THEN <<"--shell", user.shell>> ELSE <<>>)
          \o (IF Has(user, "uid") THEN <<"--uid", user.uid>> ELSE <<>>)
          \o (IF Has(user, "gid") THEN <<"--gid", user.gid>> ELSE <<>>)
          \o (IF Has(user, "description") THEN <<"--gecos", user.description>> ELSE <<>>)
          \o (IF Has(user, "groups") THEN <<"--groups", user.groups>> ELSE <<>>) >>

\* write_ks_group as it would be without the gid
write_ks_group_gidless(group) == << <<"group", "--name", group.name>> >>

write_ks_group(group) ==
    << <<"group", "--name", group.name>>
       \o (IF Has(group, "gid") THEN <<"--gid", group.gid>> ELSE <<>>) >>

\* the loop over customizations["sshkey"]
RECURSIVE SshkeyLoop(_, _)
SshkeyLoop(keys, i) ==
    IF i > Len(keys) THEN <<>>
    ELSE (IF Has(keys[i], "user") /\ Has(keys[i], "key")
          THEN << <<"sshkey", "--user", keys[i].user, keys[i].key>> >> ELSE <<>>)
         \o SshkeyLoop(keys, i + 1)

\* the loop over customizations["user"]; raised when an entry has no name
RECURSIVE UserLoop(_, _, _)
UserLoop(users, i, st) ==
    IF i > Len(users) THEN st
    ELSE IF ~Has(users[i], "name") THEN [st EXCEPT !.raised = TRUE]
    ELSE IF users[i].name = "root"
    THEN UserLoop(users, i + 1,
                  [st EXCEPT !.lines = @ \o write_ks_root(users[i]).lines,
                             !.wrote_rootpw = write_ks_root(users[i]).wrote_rootpw])
    ELSE UserLoop(users, i + 1,
                  [st EXCEPT !.lines = @ \o write_ks_user(users[i]),
                             !.user_groups = @ \cup {users[i].name}])

\* the loop over customizations["group"]; group["name"] raises without a name
RECURSIVE GroupLoop(_, _, _)
GroupLoop(groups, i, st) ==
    IF i > Len(groups) THEN st
    ELSE IF ~Has(groups[i], "name") THEN [st EXCEPT !.raised = TRUE]
    ELSE IF groups[i].name \notin st.user_groups
    THEN GroupLoop(groups, i + 1, [st EXCEPT !.lines = @ \o write_ks_group(groups[i])])
    ELSE GroupLoop(groups, i + 1, st)

\* add_customizations: the lines written to the file, and whether it raised
add_customizations(recipe) ==
    IF recipe.body.cust = <<>>
    THEN [lines |-> << <<"rootpw", "--lock">> >>, raised |-> FALSE]
    ELSE
    LET c == recipe.body.cust[1]
        st0 == [lines |->
                   (IF Has(c, "hostname") THEN << <<"network", "--hostname", c.hostname>> >>
                    ELSE <<>>)
                   \o (IF Has(c, "sshkey") THEN SshkeyLoop(c.sshkey, 1) ELSE <<>>),
                user_groups |-> {}, wrote_rootpw |-> FALSE, raised |-> FALSE]
        st1 == IF Has(c, "user") THEN UserLoop(c.user, 1, st0) ELSE st0
        st2 == IF ~st1.raised /\ Has(c, "group") THEN GroupLoop(c.group, 1, st1) ELSE st1
    IN  IF st2.raised THEN [lines |-> st2.lines, raised |-> TRUE]
        ELSE [lines |-> st2.lines
                        \o (IF st2.wrote_rootpw THEN <<>> ELSE << <<"rootpw", "--lock">> >>),
              raised |-> FALSE]

\* share/composer/<type>.ks, up to and including its open %packages section.
\* The template files are not in the source tree: each type stands for one
\* shape a template can take
Template(ctype) ==
    CASE ctype = "alibaba" ->
           << <<"bootloader", "--append=", "console=ttyS0", "--location=mbr">>,
              <<"timezone", "US/Eastern">>, <<"%packages">>, <<"kernel">> >>
      [] ctype = "ami" ->
           << <<"bootloader", "--location=mbr">>, <<"keyboard", "--xlayouts", "gb">>,
              <<"%packages">>, <<"kernel">>, <<"tmux">> >>
      [] ctype = "ext4-filesystem" ->
           << <<"firewall", "--enabled", "--port=", "80:tcp", "22:tcp", "80:tcp">>,
              <<"%packages">>, <<"kernel">> >>
      [] ctype = "google" ->
           << <<"firewall", "--disabled">>, <<"lang", "de_DE.UTF-8">>,
              <<"%packages">>, <<"kernel">> >>
      [] ctype = "live-iso" ->
           << <<"services", "--enabled=", "sshd", "cockpit">>,
              <<"%packages">>, <<"kernel">> >>
      [] ctype = "openstack" ->
           << <<"lang", "en_US.UTF-8">>, <<"%packages">>, <<"kernel">>, <<"firewalld">> >>
      [] ctype = "partitioned-disk" ->
           << <<"bootloader", "--location=mbr">>, <<"%packages">>, <<"kernel">>,
              <<"langpacks-en">> >>
      [] ctype = "qcow2" ->
           << <<"bootloader", "--location=none">>, <<"timezone", "UTC">>,
              <<"lang", "en_US.UTF-8">>, <<"keyboard", "--xlayouts", "us", "--vckeymap", "us">>,
              <<"firewall", "--enabled", "--service=", "sshd">>,
              <<"services", "--disabled=", "telnet", "--enabled=", "sshd">>,
              <<"%packages">>, <<"kernel">> >>
      [] ctype = "vhd" ->
           << <<"firewall", "--enabled", "--service=", "sshd", "cockpit">>,
              <<"services", "--enabled=", "cockpit", "sshd">>,
              <<"%packages">>, <<"kernel">> >>
      [] ctype = "vmdk" -> << <<"%packages">>, <<"kernel">> >>
      [] OTHER -> << <<"lang", "en_US.UTF-8">>, <<"%packages">>, <<"kernel">> >>

\* the letters of a word, for str.startswith; a word that begins like none of
\* the commands is one letter of its own
Chars(w) ==
    CASE w = "bootloader" -> <<"b", "o", "o", "t", "l", "o", "a", "d", "e", "r">>
      [] w = "timezone" -> <<"t", "i", "m", "e", "z", "o", "n", "e">>
      [] w = "lang" -> <<"l", "a", "n", "g">>
      [] w = "langpacks-en" -> <<"l", "a", "n", "g", "p", "a", "c", "k", "s", "-", "e", "n">>
      [] w = "keyboard" -> <<"k", "e", "y", "b", "o", "a", "r", "d">>
      [] w = "firewall" -> <<"f", "i", "r", "e", "w", "a", "l", "l">>
      [] w = "firewalld" -> <<"f", "i", "r", "e", "w", "a", "l", "l", "d">>
      [] w = "services" -> <<"s", "e", "r", "v", "i", "c", "e", "s">>
      [] OTHER -> <<w>>

\* line.startswith(cmd), cmd a word without blanks
StartsWith(line, cmd) ==
    /\ line # <<>>
    /\ Len(Chars(cmd)) <= Len(Chars(line[1]))
    /\ SubSeq(Chars(line[1]), 1, Len(Chars(cmd))) = Chars(cmd)

\* the tokens that open an option of a kickstart command
OptionTokens ==
    {"--append=", "--location=mbr", "--location=none", "--ntpservers=", "--addsupport=",
     "--xlayouts", "--vckeymap", "--enabled", "--disabled", "--port=", "--service=",
     "--remove-service=", "--enabled=", "--disabled="}

RECURSIVE TakeArgs(_, _)
TakeArgs(line, i) ==
    IF i > Len(line) \/ line[i] \in OptionTokens THEN <<>>
    ELSE <<line[i]>> \o TakeArgs(line, i + 1)

\* what KickstartParser keeps of an option's value: the tokens after it
OptArgs(line, opt) ==
    IF \E i \in 1..Len(line) : line[i] = opt
    THEN TakeArgs(line, 1 + CHOOSE i \in 1..Len(line) :
                              line[i] = opt /\ \A j \in 1..(i - 1) : line[j] # opt)
    ELSE <<>>

\* readKickstartFromString(line) fills the handler of a command only from a
\* line of that command; errorsAreFatal=False lets any other line pass
Parsed(line, cmd) == line # <<>> /\ line[1] = cmd

\* str(ks.handler.<cmd>).splitlines()[-1] of a handler that prints nothing
IndexError == <<"IndexError">>

Opt(opt, args) == IF args = <<>> THEN <<>> ELSE <<opt>> \o args

\* bootloader_append as it would be putting the value in place of the
\* arguments the line has
bootloader_append_replacing(line, kernel_append) ==
    <<"bootloader", "--append=", kernel_append>>
    \o (IF Parsed(line, "bootloader")
        THEN SelectSeq(line, LAMBDA x : x \in {"--location=mbr", "--location=none"})
        ELSE <<"--location=mbr">>)

bootloader_append(line, kernel_append) ==
    LET appendLine == IF Parsed(line, "bootloader") THEN OptArgs(line, "--append=") ELSE <<>>
        location == IF Parsed(line, "bootloader")
                    THEN SelectSeq(line, LAMBDA x : x \in {"--location=mbr", "--location=none"})
                    ELSE <<"--location=mbr">>
    IN  <<"bootloader", "--append=">>
        \o (IF appendLine # <<>> THEN appendLine \o <<" ", kernel_append>>
            ELSE <<kernel_append>>)
        \o location

get_timezone_settings(recipe) ==
    IF recipe.body.cust = <<>> THEN <<>>
    ELSE IF ~Has(recipe.body.cust[1], "timezone") THEN <<>>
    ELSE recipe.body.cust[1].timezone

timezone_cmd(line, settings) ==
    LET timezone == IF Has(settings, "timezone") THEN <<settings.timezone>>
                    ELSE IF Parsed(line, "timezone") /\ Len(line) >= 2 THEN <<line[2]>>
                    ELSE <<>>
        ntpservers == IF Has(settings, "ntpservers") THEN settings.ntpservers
                      ELSE IF Parsed(line, "timezone") THEN OptArgs(line, "--ntpservers=")
                      ELSE <<>>
    IN  IF timezone = <<>> THEN IndexError
        ELSE <<"timezone">> \o timezone \o Opt("--ntpservers=", ntpservers)

get_languages(recipe) ==
    IF recipe.body.cust = <<>> THEN <<>>
    ELSE IF ~Has(recipe.body.cust[1], "locale") THEN <<>>
    ELSE IF ~Has(recipe.body.cust[1].locale, "languages") THEN <<>>
    ELSE recipe.body.cust[1].locale.languages

lang_cmd(line, languages) ==
    LET lang == IF languages # <<>> THEN <<languages[1]>>
                ELSE IF Parsed(line, "lang") /\ Len(line) >= 2 THEN <<line[2]>>
                ELSE <<>>
        addsupport == IF Len(languages) > 1 THEN Tail(languages)
                      ELSE IF Parsed(line, "lang") THEN OptArgs(line, "--addsupport=")
                      ELSE <<>>
    IN  IF lang = <<>> THEN IndexError
        ELSE <<"lang">> \o lang \o Opt("--addsupport=", addsupport)

\* "" stands for the empty list get_keyboard_layout returns without a layout
get_keyboard_layout(recipe) ==
    IF recipe.body.cust = <<>> THEN ""
    ELSE IF ~Has(recipe.body.cust[1], "locale") THEN ""
    ELSE IF ~Has(recipe.body.cust[1].locale, "keyboard") THEN ""
    ELSE recipe.body.cust[1].locale.keyboard

keyboard_cmd(line, layout) ==
    IF layout # "" THEN <<"keyboard", layout>>
    ELSE IF Parsed(line, "keyboard") THEN line
    ELSE IndexError

get_firewall_settings(recipe) ==
    IF recipe.body.cust = <<>> \/ ~Has(recipe.body.cust[1], "firewall")
    THEN [ports |-> <<>>, enabled |-> <<>>, disabled |-> <<>>]
    ELSE LET fw == recipe.body.cust[1].firewall
         IN  [ports |-> IF Has(fw, "ports") THEN fw.ports ELSE <<>>,
              enabled |-> IF Has(fw, "services") /\ Has(fw.services, "enabled")
                          THEN fw.services.enabled ELSE <<>>,
              disabled |-> IF Has(fw, "services") /\ Has(fw.services, "disabled")
                           THEN fw.services.disabled ELSE <<>>]

\* the merge as it would be appending one list to the other
SortedUnion_appending(a, b) == a \o b

\* sorted(set(a + b))
SortedUnion(a, b) == SortedSeq(Range(a) \cup Range(b))

\* settings is a dict of three keys, true whatever its lists hold
firewall_cmd(line, settings) ==
    LET enabled == IF ~Parsed(line, "firewall") THEN "None"
                   ELSE IF "--disabled" \in Range(line) THEN "False" ELSE "True"
        ports == IF Parsed(line, "firewall") THEN OptArgs(line, "--port=") ELSE <<>>
        services == IF Parsed(line, "firewall") THEN OptArgs(line, "--service=") ELSE <<>>
        remove_services ==
            IF Parsed(line, "firewall") THEN OptArgs(line, "--remove-service=") ELSE <<>>
    IN  IF enabled = "None" THEN IndexError
        ELSE IF enabled = "False" THEN <<"firewall", "--disabled">>
        ELSE <<"firewall", "--enabled">>
             \o Opt("--port=", SortedUnion(settings.ports, ports))
             \o Opt("--service=", SortedUnion(settings.enabled, services))
             \o Opt("--remove-service=", SortedUnion(settings.disabled, remove_services))

\* get_services as it would be leaving the blueprint's services out
get_services_none(recipe) == [enabled |-> <<>>, disabled |-> <<>>]

get_services(recipe) ==
    IF recipe.body.cust = <<>> \/ ~Has(recipe.body.cust[1], "services")
    THEN [enabled |-> <<>>, disabled |-> <<>>]
    ELSE LET sv == recipe.body.cust[1].services
         IN  [enabled |-> IF Has(sv, "enabled") THEN SortedUnion(sv.enabled, <<>>) ELSE <<>>,
              disabled |-> IF Has(sv, "disabled") THEN SortedUnion(sv.disabled, <<>>)
                           ELSE <<>>]

services_cmd(line, settings) ==
    IF line = <<>> /\ settings.enabled = <<>> /\ settings.disabled = <<>> THEN <<>>
    ELSE
    LET parse == line # <<"services">> /\ Parsed(line, "services")
        enabled == SortedUnion(settings.enabled,
                               IF parse THEN OptArgs(line, "--enabled=") ELSE <<>>)
        disabled == SortedUnion(settings.disabled,
                                IF parse THEN OptArgs(line, "--disabled=") ELSE <<>>)
    IN  IF enabled = <<>> /\ disabled = <<>> THEN IndexError
        ELSE <<"services">> \o Opt("--disabled=", disabled) \o Opt("--enabled=", enabled)

get_default_services(recipe) ==
    IF get_services(recipe).enabled # <<>> \/ get_services(recipe).disabled # <<>>
    THEN <<"services">> ELSE <<>>

get_kernel_append(recipe) ==
    IF recipe.body.cust = <<>> THEN ""
    ELSE IF ~Has(recipe.body.cust[1], "kernel") THEN ""
    ELSE IF ~Has(recipe.body.cust[1].kernel, "append") THEN ""
    ELSE recipe.body.cust[1].kernel.append

\* the keys of the commands dict, in the order it is written
Directives == <<"bootloader", "timezone", "lang", "keyboard", "firewall", "services">>

\* commands[cmd][2], the DEFAULT line; <<>> is the empty string
DefaultLine(cmd, recipe) ==
    CASE cmd = "bootloader" -> <<"bootloader", "--location=none">>
      [] cmd = "timezone" -> <<"timezone", "UTC">>
      [] cmd = "lang" -> <<"lang", "en_US.UTF-8">>
      [] cmd = "keyboard" -> <<"keyboard", "--xlayouts", "us", "--vckeymap", "us">>
      [] cmd = "firewall" -> <<"firewall", "--enabled">>
      [] OTHER -> get_default_services(recipe)

\* REPLACE as it would be with True in the timezone entry as well
Replace_always(cmd) == TRUE

\* commands[cmd][3], REPLACE
Replace(cmd) == cmd # "timezone"

\* bool(commands[cmd][1]): the truth value of NEW-VALUE
Truthy(cmd, recipe) ==
    CASE cmd = "bootloader" -> get_kernel_append(recipe) # ""
      [] cmd = "timezone" -> DOMAIN get_timezone_settings(recipe) # {}
      [] cmd = "lang" -> get_languages(recipe) # <<>>
      [] cmd = "keyboard" -> get_keyboard_layout(recipe) # ""
      [] OTHER -> TRUE

\* commands[cmd][0](line, commands[cmd][1])
new_command(cmd, line, recipe) ==
    CASE cmd = "bootloader" -> bootloader_append(line, get_kernel_append(recipe))
      [] cmd = "timezone" -> timezone_cmd(line, get_timezone_settings(recipe))
      [] cmd = "lang" -> lang_cmd(line, get_languages(recipe))
      [] cmd = "keyboard" -> keyboard_cmd(line, get_keyboard_layout(recipe))
      [] cmd = "firewall" -> firewall_cmd(line, get_firewall_settings(recipe))
      [] OTHER -> services_cmd(line, get_services(recipe))

\* the commands a line starts with
Matches(line) == {i \in 1..Len(Directives) : StartsWith(line, Directives[i])}

\* the first of them, where the inner loop breaks
FirstMatch(line) == Directives[CHOOSE i \in Matches(line) : \A j \in Matches(line) : i <= j]

\* what the first loop prints for one template line
OutLine(line, recipe) ==
    IF Matches(line) = {} THEN line
    ELSE IF Truthy(FirstMatch(line), recipe) /\ Replace(FirstMatch(line))
    THEN new_command(FirstMatch(line), line, recipe)
    ELSE line

\* found: the commands some template line starts with
Found(tmpl) == {FirstMatch(tmpl[i]) : i \in {j \in 1..Len(tmpl) : Matches(tmpl[j]) # {}}}

\* the second loop: a line for every command not found
RECURSIVE DefaultsFrom(_, _, _)
DefaultsFrom(found, recipe, i) ==
    IF i > Len(Directives) THEN <<>>
    ELSE LET cmd == Directives[i]
         IN  (IF cmd \in found \/ DefaultLine(cmd, recipe) = <<>> THEN <<>>
              ELSE IF Truthy(cmd, recipe)
              THEN <<new_command(cmd, DefaultLine(cmd, recipe), recipe)>>
              ELSE <<DefaultLine(cmd, recipe)>>)
             \o DefaultsFrom(found, recipe, i + 1)

\* customize_ks_template as it would be returning output + defaults
customize_ks_template_appending(tmpl, recipe) ==
    LET output == [i \in 1..Len(tmpl) |-> OutLine(tmpl[i], recipe)]
        defaults == DefaultsFrom(Found(tmpl), recipe, 1)
    IN  IF IndexError \in Range(output) \cup Range(defaults)
        THEN [lines |-> <<>>, raised |-> TRUE]
        ELSE [lines |-> output \o defaults, raised |-> FALSE]

\* customize_ks_template: defaults + output, or the IndexError of a command
\* whose handler printed nothing
customize_ks_template(tmpl, recipe) ==
    LET output == [i \in 1..Len(tmpl) |-> OutLine(tmpl[i], recipe)]
        defaults == DefaultsFrom(Found(tmpl), recipe, 1)
    IN  IF IndexError \in Range(output) \cup Range(defaults)
        THEN [lines |-> <<>>, raised |-> TRUE]
        ELSE [lines |-> defaults \o output, raised |-> FALSE]

\* the %packages list of share/composer/<type>.ks
TemplatePkgs(ctype) ==
    LET tmpl == Template(ctype)
        header == CHOOSE i \in 1..Len(tmpl) : tmpl[i] = <<"%packages">>
    IN  {tmpl[i][1] : i \in (header + 1)..Len(tmpl)}

\* create_gitrpm_repo: <<>> without repos.git entries, the rpms built
\* otherwise; raised when a clone or a build fails
create_gitrpm_repo(recipe) ==
    [raised |-> "badref" \in Range(recipe.body.git),
     rpms |-> [i \in 1..Len(recipe.body.git) |-> <<"git-rpm-test", ToString(i)>>]]

\* start_build as it would be naming every further source composer-0
RepoLines_unnumbered(repos) ==
    [i \in 1..Len(repos) |->
        IF i = 1 THEN <<"url", repos[1]>>
        ELSE <<"repo", "--name", "composer", "0", repos[i]>>]

RepoLines(repos) ==
    [i \in 1..Len(repos) |->
        IF i = 1 THEN <<"url", repos[1]>>
        ELSE <<"repo", "--name", "composer", ToString(i - 2), repos[i]>>]

\* what start_build writes before the template body
KickstartHead(repos, rpms, size) ==
    RepoLines(repos)
    \o (IF rpms # <<>> THEN << <<"repo", "--name", "gitrpms">> >> ELSE <<>>)
    \o << <<"clearpart", "--all", "--initlabel">> >>
    \o << <<"part", "/", "--size", ToString(size)>> >>

\* the text start_build writes to final-kickstart.ks, and what it raised
\* while writing it: "" for nothing
FinalKickstart(repos, rpms, size, ctype, recipe, deps) ==
    IF customize_ks_template(Template(ctype), recipe).raised
    THEN [lines |-> KickstartHead(repos, rpms, size), err |-> "IndexError"]
    ELSE
    [lines |->
        KickstartHead(repos, rpms, size)
        \o customize_ks_template(Template(ctype), recipe).lines
        \o [i \in 1..Len(deps) |-> <<"nevra", deps[i].name, ToString(deps[i].version)>>]
        \o rpms
        \o << <<"%end">> >>
        \o add_customizations(recipe).lines,
     err |-> IF add_customizations(recipe).raised THEN "entry requires a name" ELSE ""]

\* Recipe.freeze: every package pinned to the version resolved for it
freeze(recipe, deps) ==
    [name |-> recipe.name, version |-> recipe.version,
     packages |-> {<<deps[i].name, deps[i].version>> :
                      i \in {j \in 1..Len(deps) : deps[j].name \in recipe.body.packages}}]

\* --------------------------------------------------------------- start_build
IdleFrame ==
    [pc |-> "idle", name |-> "-", ctype |-> "-", test |-> 0, extra_pkgs |-> {},
     commit_id |-> 0, recipe |-> <<>>, deps |-> <<>>, installed_size |-> 0,
     template_size |-> 0, build_id |-> NoBuild, repos |-> <<>>, rpms |-> <<>>,
     pub_at_call |-> 0, meta_at_depsolve |-> 0, due_at_depsolve |-> FALSE, err |-> "",
     locks |-> <<>>, repos_at_depsolve |-> {}, projects |-> <<>>]

Goto(t, pc) == sb' = [sb EXCEPT ![t].pc = pc]

Raise(t, err) == sb' = [sb EXCEPT ![t].pc = "raised", ![t].err = err]

\* an exception inside a "with dnflock.<mode>:" block; locks is the history
\* of the lock properties the call has entered
RaiseLocked(t, err, mode) ==
    sb' = [sb EXCEPT ![t].pc = "raised", ![t].err = err, ![t].locks = Append(@, mode)]

uuid4 == CHOOSE b \in BuildIds \ used : \A c \in BuildIds \ used : Rank(b) <= Rank(c)

WriteFile(b, name, content) ==
    files' = [files EXCEPT ![b] = (name :> content) @@ @]

\* a handler thread enters start_build(cfg, dnflock, gitlock, branch, recipe_name,
\* compose_type, test_mode)
SbCall(t, n, ctype, test) ==
    /\ sb[t].pc = "idle"
    /\ sb' = [sb EXCEPT ![t] = [IdleFrame EXCEPT !.pc = "validate", !.name = n,
                                   !.ctype = ctype, !.test = test,
                                   !.pub_at_call = repo_pub]]
    /\ UNCHANGED <<storeVars, dnfVars, machine, resultVars, queueVars>>

\* start_build as it would be with the result directory made on entry
SbValidate_allocating(t) ==
    /\ sb[t].pc = "validate"
    /\ used' = used \cup {uuid4}
    /\ dirs' = dirs \cup {uuid4}
    /\ sb' = [sb EXCEPT
                ![t].build_id = uuid4,
                ![t].pc = IF type_enabled(machine, sb[t].ctype) = <<TRUE>>
                          THEN "extra_pkgs" ELSE "raised",
                ![t].err = IF type_enabled(machine, sb[t].ctype) = <<TRUE>>
                           THEN "" ELSE "Invalid compose type"]
    /\ UNCHANGED <<files, storeVars, dnfVars, machine, queueVars>>

SbValidate(t) ==
    /\ sb[t].pc = "validate"
    /\ IF type_enabled(machine, sb[t].ctype) = <<>>
       THEN Raise(t, "Invalid compose type")
       ELSE IF ~type_enabled(machine, sb[t].ctype)[1]
       THEN Raise(t, "Compose type is disabled on this architecture")
       ELSE Goto(t, "extra_pkgs")
    /\ UNCHANGED <<storeVars, dnfVars, machine, resultVars, queueVars>>

SbExtraPkgs(t) ==
    /\ sb[t].pc = "extra_pkgs"
    /\ AcquireDnf(t, "lock")
    /\ sb' = [sb EXCEPT ![t].pc = "extra_pkgs_exit",
                         ![t].extra_pkgs = get_extra_pkgs(sb[t].ctype),
                         ![t].locks = Append(@, "lock")]
    /\ UNCHANGED <<storeVars, machine, resultVars, queueVars>>

SbExtraPkgsExit(t) ==
    /\ sb[t].pc = "extra_pkgs_exit"
    /\ ReleaseDnf(t)
    /\ Goto(t, "read_recipe")
    /\ UNCHANGED <<storeVars, machine, resultVars, queueVars>>

\* start_build as it would be reading the blueprint the way info does,
\* workspace first
SbReadRecipe_workspace(t) ==
    /\ sb[t].pc = "read_recipe"
    /\ gitlock = NoThread
    /\ IF read_recipe_and_id(sb[t].name) = <<>>
       THEN Raise(t, "UnknownBlueprint") /\ UNCHANGED gitlock
       ELSE /\ gitlock' = t
            /\ sb' = [sb EXCEPT ![t].pc = "read_recipe_exit",
                                 ![t].commit_id = read_recipe_and_id(sb[t].name)[1].commit_id,
                                 ![t].recipe = Effective(sb[t].name)]
    /\ UNCHANGED <<commits, present, workspace, tags, since_delete>>
    /\ UNCHANGED <<dnfVars, machine, resultVars, queueVars>>

\* with gitlock.lock: (commit_id, recipe) = read_recipe_and_id(...)
SbReadRecipe(t) ==
    /\ sb[t].pc = "read_recipe"
    /\ gitlock = NoThread
    /\ IF read_recipe_and_id(sb[t].name) = <<>>
       THEN Raise(t, "UnknownBlueprint") /\ UNCHANGED gitlock
       ELSE /\ gitlock' = t
            /\ sb' = [sb EXCEPT ![t].pc = "read_recipe_exit",
                                 ![t].commit_id = read_recipe_and_id(sb[t].name)[1].commit_id,
                                 ![t].recipe = <<read_recipe_and_id(sb[t].name)[1].recipe>>]
    /\ UNCHANGED <<commits, present, workspace, tags, since_delete>>
    /\ UNCHANGED <<dnfVars, machine, resultVars, queueVars>>

\* start_build as it would be going on to the depsolve inside the
\* "with gitlock.lock" block
SbReadRecipeExit_keeping(t) ==
    /\ sb[t].pc = "read_recipe_exit"
    /\ gitlock = t
    /\ Goto(t, "depsolve")
    /\ UNCHANGED <<storeVars, dnfVars, machine, resultVars, queueVars>>

SbReadRecipeExit(t) ==
    /\ sb[t].pc = "read_recipe_exit"
    /\ gitlock = t
    /\ gitlock' = NoThread
    /\ Goto(t, "depsolve")
    /\ UNCHANGED <<commits, present, workspace, tags, since_delete>>
    /\ UNCHANGED <<dnfVars, machine, resultVars, queueVars>>

\* recipe.module_nver and recipe.package_nver: the (name, version glob)
\* pairs of the blueprint's modules and packages; the packages of a
\* blueprint here all have the glob *
module_nver(recipe) == IF Has(recipe.body, "modules") THEN recipe.body.modules ELSE <<>>

package_nver(recipe) ==
    [i \in 1..Cardinality(recipe.body.packages) |->
        <<SortedSeq(recipe.body.packages)[i], "*">>]

\* str.lower() of a package name
Lower(name) == IF name = "Xaw3d" THEN "xaw3d" ELSE name

\* set(module_nver + package_nver), the extras put at the end of package_nver
ProjectPairs(recipe, extra_pkgs) ==
    Range(module_nver(recipe)) \cup Range(package_nver(recipe))
    \cup {<<name, "*">> : name \in extra_pkgs}

\* the orders a set can be listed in
Orders(S) ==
    {s \in [1..Cardinality(S) -> S] : \A i, j \in 1..Cardinality(S) : s[i] = s[j] => i = j}

\* the project list as it would be with the key p[0]
ProjectLists_plainkey(recipe, extra_pkgs) ==
    {s \in Orders(ProjectPairs(recipe, extra_pkgs)) :
        \A i \in 1..(Len(s) - 1) : Rank(s[i][1]) <= Rank(s[i + 1][1])}

\* sorted(set(...), key=lambda p: p[0].lower()): the sort is stable and a set
\* has no order of its own, so pairs of one lowercased name come in any order
ProjectLists(recipe, extra_pkgs) ==
    {s \in Orders(ProjectPairs(recipe, extra_pkgs)) :
        \A i \in 1..(Len(s) - 1) : Rank(Lower(s[i][1])) <= Rank(Lower(s[i + 1][1]))}

\* the names requested
Projects(t) == {p[1] : p \in ProjectPairs(sb[t].recipe[1], sb[t].extra_pkgs)}

\* the merged-set depsolve as it would be under the plain lock
DepsolveLock_plain == "lock"

\* the lock property the merged-set depsolve enters
DepsolveLock == "lock_check"

SbDepsolve(t) ==
    /\ sb[t].pc = "depsolve"
    /\ \E projects \in ProjectLists(sb[t].recipe[1], sb[t].extra_pkgs) :
       LET r == projects_depsolve_with_size(MetaAfter(DepsolveLock),
                                            ReposAfter(DepsolveLock), Projects(t))
       IN  IF ~r.ok
           THEN /\ PassDnf(DepsolveLock)
                /\ sb' = [sb EXCEPT ![t].pc = "raised", ![t].err = "Problem depsolving",
                                     ![t].locks = Append(@, DepsolveLock),
                                     ![t].projects = projects]
           ELSE /\ AcquireDnf(t, DepsolveLock)
                /\ sb' = [sb EXCEPT ![t].pc = "depsolve_exit", ![t].deps = r.deps,
                                     ![t].projects = projects,
                                     ![t].locks = Append(@, DepsolveLock),
                                     ![t].repos_at_depsolve = ReposAfter(DepsolveLock),
                                     ![t].installed_size = r.size,
                                     ![t].meta_at_depsolve = dbo_meta,
                                     ![t].due_at_depsolve = expired]
    /\ UNCHANGED <<storeVars, machine, resultVars, queueVars>>

SbDepsolveExit(t) ==
    /\ sb[t].pc = "depsolve_exit"
    /\ ReleaseDnf(t)
    /\ Goto(t, "template")
    /\ UNCHANGED <<storeVars, machine, resultVars, queueVars>>

SbTemplateDepsolve(t) ==
    /\ sb[t].pc = "template"
    /\ LET r == projects_depsolve_with_size(MetaAfter("lock"), ReposAfter("lock"),
                                            TemplatePkgs(sb[t].ctype))
       IN  IF ~r.ok
           THEN PassDnf("lock") /\ RaiseLocked(t, "Problem depsolving", "lock")
           ELSE /\ AcquireDnf(t, "lock")
                /\ sb' = [sb EXCEPT ![t].pc = "template_exit",
                                     ![t].locks = Append(@, "lock"),
                                     ![t].template_size = r.size]
    /\ UNCHANGED <<storeVars, machine, resultVars, queueVars>>

SbTemplateExit(t) ==
    /\ sb[t].pc = "template_exit"
    /\ ReleaseDnf(t)
    /\ Goto(t, "makedirs")
    /\ UNCHANGED <<storeVars, machine, resultVars, queueVars>>

\* build_id = str(uuid4()); os.makedirs(results_dir)
SbMakedirs(t) ==
    /\ sb[t].pc = "makedirs"
    /\ sb' = [sb EXCEPT ![t].pc = "commit", ![t].build_id = uuid4]
    /\ used' = used \cup {uuid4}
    /\ dirs' = dirs \cup {uuid4}
    /\ files' = [files EXCEPT ![uuid4] = <<>>]
    /\ UNCHANGED <<storeVars, dnfVars, machine, queueVars>>

\* one "with open(path, 'w') as f: f.write(content)" of start_build
SbWrite(t, pc, name, content, next) ==
    /\ sb[t].pc = pc
    /\ WriteFile(sb[t].build_id, name, content)
    /\ Goto(t, next)
    /\ UNCHANGED <<used, dirs>>
    /\ UNCHANGED <<storeVars, dnfVars, machine, queueVars>>

SbWriteCommit(t) == SbWrite(t, "commit", "COMMIT", sb[t].commit_id, "blueprint")

SbWriteBlueprint(t) ==
    SbWrite(t, "blueprint", "blueprint.toml", sb[t].recipe[1], "frozen")

SbWriteFrozen(t) ==
    SbWrite(t, "frozen", "frozen.toml", freeze(sb[t].recipe[1], sb[t].deps), "deps")

SbWriteDeps(t) == SbWrite(t, "deps", "deps.toml", sb[t].deps, "copy_template")

\* start_build as it would be queueing the build once the template is copied
SbCopyTemplate_linking(t) ==
    /\ sb[t].pc = "copy_template"
    /\ WriteFile(sb[t].build_id, "template.ks", Template(sb[t].ctype))
    /\ queue_new' = Append(queue_new, sb[t].build_id)
    /\ Goto(t, "repos")
    /\ UNCHANGED <<used, dirs, queue_run, status_hist, worker, canceller, handed>>
    /\ UNCHANGED <<storeVars, dnfVars, machine>>

SbCopyTemplate(t) ==
    SbWrite(t, "copy_template", "template.ks", Template(sb[t].ctype), "repos")

\* start_build as it would be listing the enabled repos without the lock
SbRepos_unlocked(t) ==
    /\ sb[t].pc = "repos"
    /\ sb' = [sb EXCEPT ![t].pc = "repos_exit", ![t].repos = SortedSeq(dbo_repos)]
    /\ UNCHANGED <<storeVars, dnfVars, machine, resultVars, queueVars>>

\* with dnflock.lock: repos = list(dnflock.dbo.repos.iter_enabled())
SbRepos(t) ==
    /\ sb[t].pc = "repos"
    /\ AcquireDnf(t, "lock")
    /\ sb' = [sb EXCEPT ![t].pc = "repos_exit", ![t].repos = SortedSeq(ReposAfter("lock")),
                         ![t].locks = Append(@, "lock")]
    /\ UNCHANGED <<storeVars, machine, resultVars, queueVars>>

SbReposExit(t) ==
    /\ sb[t].pc = "repos_exit"
    /\ ReleaseDnf(t)
    /\ IF sb[t].repos = <<>>
       THEN Raise(t, "No enabled repos, canceling build.")
       ELSE Goto(t, "gitrpm")
    /\ UNCHANGED <<storeVars, machine, resultVars, queueVars>>

SbGitRpm(t) ==
    /\ sb[t].pc = "gitrpm"
    /\ IF create_gitrpm_repo(sb[t].recipe[1]).raised
       THEN Raise(t, "BuildFailed") /\ UNCHANGED files
       ELSE /\ sb' = [sb EXCEPT ![t].pc = "kickstart",
                                 ![t].rpms = create_gitrpm_repo(sb[t].recipe[1]).rpms]
            /\ IF create_gitrpm_repo(sb[t].recipe[1]).rpms = <<>>
               THEN UNCHANGED files
               ELSE WriteFile(sb[t].build_id, "gitrpms",
                              create_gitrpm_repo(sb[t].recipe[1]).rpms)
    /\ UNCHANGED <<used, dirs>>
    /\ UNCHANGED <<storeVars, dnfVars, machine, queueVars>>

Kickstart(t) ==
    FinalKickstart(sb[t].repos, sb[t].rpms,
                   PartitionMiB(sb[t].installed_size, sb[t].template_size),
                   sb[t].ctype, sb[t].recipe[1], sb[t].deps)

SbWriteKickstart(t) ==
    /\ sb[t].pc = "kickstart"
    /\ WriteFile(sb[t].build_id, "final-kickstart.ks", Kickstart(t).lines)
    /\ IF Kickstart(t).err # ""
       THEN Raise(t, Kickstart(t).err)
       ELSE Goto(t, "config")
    /\ UNCHANGED <<used, dirs>>
    /\ UNCHANGED <<storeVars, dnfVars, machine, queueVars>>

SbWriteConfig(t) ==
    SbWrite(t, "config", "config.toml",
            [compose_type |-> sb[t].ctype,
             extra_boot_args |-> get_kernel_append(sb[t].recipe[1]),
             ks |-> "final-kickstart.ks", timeout |-> 60],
            "status")

\* start_build as it would be creating the symlink along with STATUS
SbWriteStatus_linking(t) ==
    /\ sb[t].pc = "status"
    /\ WriteFile(sb[t].build_id, "STATUS", "WAITING")
    /\ status_hist' = [status_hist EXCEPT ![sb[t].build_id] = Append(@, "WAITING")]
    /\ queue_new' = Append(queue_new, sb[t].build_id)
    /\ Goto(t, "test")
    /\ UNCHANGED <<used, dirs, queue_run, worker, canceller, handed>>
    /\ UNCHANGED <<storeVars, dnfVars, machine>>

\* open(joinpaths(results_dir, "STATUS"), "w").write("WAITING")
SbWriteStatus(t) ==
    /\ sb[t].pc = "status"
    /\ WriteFile(sb[t].build_id, "STATUS", "WAITING")
    /\ status_hist' = [status_hist EXCEPT ![sb[t].build_id] = Append(@, "WAITING")]
    /\ Goto(t, "test")
    /\ UNCHANGED <<used, dirs, queue_new, queue_run, worker, canceller, handed>>
    /\ UNCHANGED <<storeVars, dnfVars, machine>>

SbWriteTest(t) ==
    /\ sb[t].pc = "test"
    /\ IF sb[t].test > 0
       THEN WriteFile(sb[t].build_id, "TEST", sb[t].test)
       ELSE UNCHANGED files
    /\ Goto(t, "timestamp")
    /\ UNCHANGED <<used, dirs>>
    /\ UNCHANGED <<storeVars, dnfVars, machine, queueVars>>

\* start_build as it would be writing STATUS once more with TS_CREATED
SbWriteTimestamp_status(t) ==
    /\ sb[t].pc = "timestamp"
    /\ files' = [files EXCEPT ![sb[t].build_id] =
                     ("TS_CREATED" :> "now") @@ ("STATUS" :> "WAITING") @@ @]
    /\ status_hist' = [status_hist EXCEPT ![sb[t].build_id] = Append(@, "WAITING")]
    /\ Goto(t, "symlink")
    /\ UNCHANGED <<used, dirs, queue_new, queue_run, worker, canceller, handed>>
    /\ UNCHANGED <<storeVars, dnfVars, machine>>

SbWriteTimestamp(t) == SbWrite(t, "timestamp", "TS_CREATED", "now", "symlink")

\* os.symlink(results_dir, joinpaths(lib_dir, "queue/new/", build_id))
SbSymlink(t) ==
    /\ sb[t].pc = "symlink"
    /\ queue_new' = Append(queue_new, sb[t].build_id)
    /\ Goto(t, "returned")
    /\ UNCHANGED <<queue_run, status_hist, worker, canceller, handed>>
    /\ UNCHANGED <<storeVars, dnfVars, machine, resultVars>>

start_build(t) ==
    \/ SbValidate(t) \/ SbExtraPkgs(t) \/ SbExtraPkgsExit(t)
    \/ SbReadRecipe(t) \/ SbReadRecipeExit(t)
    \/ SbDepsolve(t) \/ SbDepsolveExit(t)
    \/ SbTemplateDepsolve(t) \/ SbTemplateExit(t)
    \/ SbMakedirs(t) \/ SbWriteCommit(t) \/ SbWriteBlueprint(t) \/ SbWriteFrozen(t)
    \/ SbWriteDeps(t) \/ SbCopyTemplate(t) \/ SbRepos(t) \/ SbReposExit(t)
    \/ SbGitRpm(t) \/ SbWriteKickstart(t) \/ SbWriteConfig(t) \/ SbWriteStatus(t)
    \/ SbWriteTest(t) \/ SbWriteTimestamp(t) \/ SbSymlink(t)

\* ------------------------------------------------------ queue, worker, cancel
Terminal == {"FINISHED", "FAILED", "CANCELED"}

\* the STATUS file of results/<b>, "" when there is none
StatusOf(b) ==
    IF b \in dirs /\ "STATUS" \in DOMAIN files[b] THEN files[b]["STATUS"] ELSE ""

WriteStatus(b, status) ==
    /\ WriteFile(b, "STATUS", status)
    /\ status_hist' = [status_hist EXCEPT ![b] = Append(@, status)]

IdleWorker == [pc |-> "idle", build |-> NoBuild]

\* worker step 1: move the oldest symlink of new/ to run/
WorkerPick ==
    /\ worker.pc = "idle"
    /\ queue_new # <<>>
    /\ queue_new' = Tail(queue_new)
    /\ queue_run' = queue_run \cup {Head(queue_new)}
    /\ worker' = [pc |-> "picked", build |-> Head(queue_new)]
    /\ UNCHANGED <<status_hist, canceller, handed>>
    /\ UNCHANGED <<storeVars, dnfVars, machine, sb, resultVars>>

\* the worker re-checks STATUS and skips the build if it is not WAITING
WorkerRecheck ==
    /\ worker.pc = "picked"
    /\ IF StatusOf(worker.build) = "WAITING"
       THEN worker' = [worker EXCEPT !.pc = "checked"] /\ UNCHANGED queue_run
       ELSE worker' = IdleWorker /\ queue_run' = queue_run \ {worker.build}
    /\ UNCHANGED <<queue_new, status_hist, canceller, handed>>
    /\ UNCHANGED <<storeVars, dnfVars, machine, sb, resultVars>>

\* worker steps 2 and 3: STATUS = RUNNING, TS_STARTED, the image builder starts
WorkerRun ==
    /\ worker.pc = "checked"
    /\ files' = [files EXCEPT ![worker.build] =
                     ("STATUS" :> "RUNNING") @@ ("TS_STARTED" :> "now") @@ @]
    /\ status_hist' = [status_hist EXCEPT ![worker.build] = Append(@, "RUNNING")]
    /\ handed' = handed \cup {worker.build}
    /\ worker' = [worker EXCEPT !.pc = "running"]
    /\ UNCHANGED <<used, dirs, queue_new, queue_run, canceller>>
    /\ UNCHANGED <<storeVars, dnfVars, machine, sb>>

\* the builder's exit: TEST = 1 fails, TEST = 2 succeeds, a real build does either
Outcomes(b) ==
    IF "TEST" \in DOMAIN files[b]
    THEN {files[b]["TEST"] = 2}
    ELSE BOOLEAN

\* worker steps 4 and 5: FINISHED on exit 0, FAILED otherwise, CANCELED in
\* place of FAILED when the cancellation marker is there
WorkerFinish(ok) ==
    /\ worker.pc = "running"
    /\ ok \in Outcomes(worker.build)
    /\ WriteStatus(worker.build,
                   IF "CANCEL" \in DOMAIN files[worker.build] THEN "CANCELED"
                   ELSE IF ok THEN "FINISHED" ELSE "FAILED")
    /\ worker' = [worker EXCEPT !.pc = "finished"]
    /\ UNCHANGED <<used, dirs, queue_new, queue_run, canceller, handed>>
    /\ UNCHANGED <<storeVars, dnfVars, machine, sb>>

\* worker steps 6 and 7: TS_FINISHED, then the run/ symlink goes
WorkerCleanup ==
    /\ worker.pc = "finished"
    /\ IF worker.build \in dirs
       THEN WriteFile(worker.build, "TS_FINISHED", "now")
       ELSE UNCHANGED files
    /\ queue_run' = queue_run \ {worker.build}
    /\ worker' = IdleWorker
    /\ UNCHANGED <<used, dirs, queue_new, status_hist, canceller, handed>>
    /\ UNCHANGED <<storeVars, dnfVars, machine, sb>>

Worker ==
    \/ WorkerPick \/ WorkerRecheck \/ WorkerRun
    \/ \E ok \in BOOLEAN : WorkerFinish(ok)
    \/ WorkerCleanup

IdleCanceller == [pc |-> "idle", build |-> NoBuild, ok_waiting |-> {}, ok_running |-> {}]

\* cancel(build_id) reads STATUS: only WAITING and RUNNING builds are cancelled
CancelCall(b) ==
    /\ canceller.pc = "idle"
    /\ canceller' =
          [canceller EXCEPT !.build = b,
                            !.pc = CASE StatusOf(b) = "WAITING" -> "unlink"
                                     [] StatusOf(b) = "RUNNING" -> "signal"
                                     [] OTHER -> "refused"]
    /\ UNCHANGED <<queue_new, queue_run, status_hist, worker, handed>>
    /\ UNCHANGED <<storeVars, dnfVars, machine, sb, resultVars>>

\* cancel as it would be going on to CANCELED whether or not the symlink
\* was still in new/
CancelUnlink_blind ==
    /\ canceller.pc = "unlink"
    /\ queue_new' = SelectSeq(queue_new, LAMBDA x : x # canceller.build)
    /\ canceller' = [canceller EXCEPT !.pc = "write"]
    /\ UNCHANGED <<queue_run, status_hist, worker, handed>>
    /\ UNCHANGED <<storeVars, dnfVars, machine, sb, resultVars>>

\* WAITING: remove the new/ symlink; the call fails when it is not there
CancelUnlink ==
    /\ canceller.pc = "unlink"
    /\ IF canceller.build \in Range(queue_new)
       THEN /\ queue_new' = SelectSeq(queue_new, LAMBDA x : x # canceller.build)
            /\ canceller' = [canceller EXCEPT !.pc = "write"]
       ELSE /\ canceller' = [canceller EXCEPT !.pc = "refused"]
            /\ UNCHANGED queue_new
    /\ UNCHANGED <<queue_run, status_hist, worker, handed>>
    /\ UNCHANGED <<storeVars, dnfVars, machine, sb, resultVars>>

\* WAITING: then write STATUS = CANCELED
CancelWrite ==
    /\ canceller.pc = "write"
    /\ WriteStatus(canceller.build, "CANCELED")
    /\ canceller' = [canceller EXCEPT !.pc = "idle",
                                       !.ok_waiting = @ \cup {canceller.build}]
    /\ UNCHANGED <<used, dirs, queue_new, queue_run, worker, handed>>
    /\ UNCHANGED <<storeVars, dnfVars, machine, sb>>

\* RUNNING: signal the builder and leave the cancellation marker for the worker
CancelSignal ==
    /\ canceller.pc = "signal"
    /\ IF canceller.build \in dirs
       THEN WriteFile(canceller.build, "CANCEL", "")
       ELSE UNCHANGED files
    /\ canceller' = [canceller EXCEPT !.pc = "idle",
                                       !.ok_running = @ \cup {canceller.build}]
    /\ UNCHANGED <<used, dirs, queue_new, queue_run, status_hist, worker, handed>>
    /\ UNCHANGED <<storeVars, dnfVars, machine, sb>>

\* the call returns its error
CancelRefused ==
    /\ canceller.pc = "refused"
    /\ canceller' = [canceller EXCEPT !.pc = "idle"]
    /\ UNCHANGED <<queue_new, queue_run, status_hist, worker, handed>>
    /\ UNCHANGED <<storeVars, dnfVars, machine, sb, resultVars>>

Cancel ==
    \/ \E b \in BuildIds : CancelCall(b)
    \/ CancelUnlink \/ CancelWrite \/ CancelSignal \/ CancelRefused

\* delete(build_id): a build in a terminal status loses its result directory
DeleteBuild(b) ==
    /\ StatusOf(b) \in Terminal
    /\ dirs' = dirs \ {b}
    /\ files' = [files EXCEPT ![b] = <<>>]
    /\ UNCHANGED used
    /\ UNCHANGED <<storeVars, dnfVars, machine, sb, queueVars>>

\* ------------------------------------------------------------ specifications
CallNames == Names \cup {"no-such-blueprint"}
CallTypes == {"tar", "vhd", "snakes"}
TestModes == {0, 2}

InitStore(bodies) ==
    /\ commits \in [Names -> {<<[id |-> 1, msg |-> "saved",
                                    bp |-> MkBlueprint("bp", InitialVersion, b)]>> :
                                  b \in bodies}]
    /\ present = [n \in Names |-> TRUE]
    /\ workspace = [n \in Names |-> <<>>]
    /\ tags = [n \in Names |-> <<>>]
    /\ gitlock = NoThread
    /\ since_delete = [n \in Names |-> "live"]

InitRest ==
    /\ repo_pub = 1
    /\ sources = SourceNames
    /\ dbo_meta = 1
    /\ dbo_repos = SourceNames
    /\ expired = FALSE
    /\ dnflock = NoThread
    /\ sb = [t \in Threads |-> IdleFrame]
    /\ used = {}
    /\ dirs = {}
    /\ files = [b \in BuildIds |-> <<>>]
    /\ queue_new = <<>>
    /\ queue_run = {}
    /\ status_hist = [b \in BuildIds |-> <<>>]
    /\ worker = IdleWorker
    /\ canceller = IdleCanceller
    /\ handed = {}

\* one start_build call of any input, the store and the sources changing
\* under it, the worker behind it
Init ==
    /\ InitStore(Bodies)
    /\ machine = "s390x"
    /\ InitRest

StoreEnv ==
    /\ \E n \in Names :
          \/ New(n, InitialVersion, BodyAlt)
          \/ WorkspaceWrite(n, InitialVersion, BodyConflict)
    /\ UNCHANGED <<dnfVars, machine, sb, resultVars, queueVars>>

Next ==
    \/ \E n \in CallNames, ctype \in CallTypes, test \in TestModes :
          SbCall("t1", n, ctype, test)
    \/ \E t \in Threads : start_build(t)
    \/ StoreEnv
    \/ \E s \in SourceNames : SourceChange(s)
    \/ Worker

Spec == Init /\ [][Next]_vars

\* one start_build call of a good blueprint while the repositories publish,
\* the metadata ages and other handlers use the resolver
InitFresh ==
    /\ InitStore({BodyBase})
    /\ machine = "x86_64"
    /\ InitRest

NextFresh ==
    \/ \E test \in TestModes : SbCall("t1", "bp", "tar", test)
    \/ \E t \in Threads : start_build(t)
    \/ Publish \/ Expire \/ ProjectsOp

SpecFresh == InitFresh /\ [][NextFresh]_vars

\* two start_build calls of good blueprints, the worker, cancel and delete
InitQueue ==
    /\ InitStore({BodyBase})
    /\ machine = "x86_64"
    /\ InitRest

NextQueue ==
    \/ \E t \in Threads, test \in {0, 1, 2} : SbCall(t, "bp", "tar", test)
    \/ \E t \in Threads : start_build(t)
    \/ Worker
    \/ Cancel
    \/ \E b \in BuildIds : DeleteBuild(b)

SpecQueue == InitQueue /\ [][NextQueue]_vars

\* the operations of the blueprint store on one name (one tag at most), and
\* one start_build call
InitStoreOps ==
    /\ InitStore({BodyBase})
    /\ machine = "x86_64"
    /\ InitRest

StoreOps ==
    /\ \E n \in Names :
          \/ \E v \in PostedVersions : New(n, v, BodyBase)
          \/ \E body \in {BodyBase, BodyAlt} : WorkspaceWrite(n, InitialVersion, body)
          \/ WorkspaceDelete(n)
          \/ Delete(n)
          \/ \E cid \in 1..MaxCommits : Undo(n, cid)
          \/ tags[n] = <<>> /\ Tag(n)
    /\ UNCHANGED <<dnfVars, machine, sb, resultVars, queueVars>>

NextStore ==
    \/ SbCall("t1", "bp", "tar", 0)
    \/ \E t \in Threads : start_build(t)
    \/ StoreOps

SpecStore == InitStoreOps /\ [][NextStore]_vars

\* two start_build calls among handlers that take the blueprint-store lock
\* or the resolver lock; every thread that can take a step takes one
InitLive ==
    /\ InitStore({BodyBase})
    /\ machine = "x86_64"
    /\ InitRest

LiveEnv ==
    /\ \E n \in Names : WorkspaceWrite(n, InitialVersion, BodyAlt)
    /\ UNCHANGED <<dnfVars, machine, sb, resultVars, queueVars>>

NextLive ==
    \/ \E t \in Threads : SbCall(t, "bp", "tar", 0)
    \/ \E t \in Threads : start_build(t)
    \/ LiveEnv
    \/ ProjectsOp

SpecLive ==
    InitLive /\ [][NextLive]_vars /\ \A t \in Threads : WF_vars(start_build(t))

\* the architectures platform.machine() answers, and the types a client asks for
Machines ==
    {"arm", "armhfp", "aarch64", "ppc", "ppc64", "ppc64le", "s390", "s390x", "x86_64", "i686"}
AskedTypes == Range(AllTypes) \cup {"hyper-v", "snakes"}

\* one start_build call of any type on any architecture
InitTypes ==
    /\ InitStore({BodyBase})
    /\ machine \in Machines
    /\ InitRest

NextTypes ==
    \/ \E ctype \in AskedTypes : SbCall("t1", "bp", ctype, 0)
    \/ \E t \in Threads : start_build(t)

SpecTypes == InitTypes /\ [][NextTypes]_vars

\* one start_build call of any type, of a blueprint with any of the
\* customizations, with three sources enabled
KsSources == SourceNames \cup {"s3"}

InitKs ==
    /\ InitStore(KsBodies)
    /\ machine = "x86_64"
    /\ repo_pub = 1
    /\ sources = KsSources
    /\ dbo_meta = 1
    /\ dbo_repos = KsSources
    /\ expired = FALSE
    /\ dnflock = NoThread
    /\ sb = [t \in Threads |-> IdleFrame]
    /\ used = {}
    /\ dirs = {}
    /\ files = [b \in BuildIds |-> <<>>]
    /\ queue_new = <<>>
    /\ queue_run = {}
    /\ status_hist = [b \in BuildIds |-> <<>>]
    /\ worker = IdleWorker
    /\ canceller = IdleCanceller
    /\ handed = {}

NextKs ==
    \/ \E ctype \in Range(AllTypes) : SbCall("t1", "bp", ctype, 0)
    \/ \E t \in Threads : start_build(t)

SpecKs == InitKs /\ [][NextKs]_vars

\* ------------------------------------------------------------------ claims
\* the files start_build leaves in a result directory whatever the blueprint
ResultFiles ==
    {"STATUS", "TS_CREATED", "COMMIT", "blueprint.toml", "frozen.toml", "deps.toml",
     "final-kickstart.ks", "config.toml"}

\* C1: a build whose symlink is in queue/new has its result directory with
\* STATUS = WAITING, TS_CREATED, COMMIT, blueprint.toml, frozen.toml, deps.toml,
\* final-kickstart.ks and config.toml in it, and TEST when the call had
\* test_mode > 0; the call that made the symlink has nothing left to do
C1_QueuedBuildIsComplete ==
    \A b \in Range(queue_new) :
        /\ b \in dirs
        /\ ResultFiles \subseteq DOMAIN files[b]
        /\ files[b]["STATUS"] = "WAITING"
        /\ \A t \in Threads :
              sb[t].build_id = b =>
                  /\ sb[t].pc = "returned"
                  /\ sb[t].test > 0 => "TEST" \in DOMAIN files[b]

C1_Witness ==
    \E t \in Threads :
        /\ sb[t].pc = "returned"
        /\ sb[t].test > 0
        /\ sb[t].build_id \in Range(queue_new)
        /\ "TEST" \in DOMAIN files[sb[t].build_id]

DepNames(deps) == {deps[i].name : i \in 1..Len(deps)}

\* C2: what a call has read is a commit of the name, identifier and content of
\* the same commit, the head while the store lock was held; COMMIT,
\* blueprint.toml, the packages depsolved and final-kickstart.ks come from that
\* commit, whatever the workspace holds and whatever is committed afterwards
C2_BuildFromCommittedHead ==
    \A t \in Threads :
        sb[t].recipe # <<>> =>
            LET c == CommitById(sb[t].name, sb[t].commit_id)
                b == sb[t].build_id
                wanted == c[1].bp.body.packages \cup get_extra_pkgs(sb[t].ctype)
            IN  /\ c # <<>>
                /\ sb[t].recipe[1] = c[1].bp
                /\ sb[t].pc = "read_recipe_exit" => HeadOpt(sb[t].name) = c
                /\ sb[t].deps # <<>> => DepNames(sb[t].deps) = wanted
                /\ b # NoBuild =>
                      /\ "COMMIT" \in DOMAIN files[b] => files[b]["COMMIT"] = c[1].id
                      /\ "blueprint.toml" \in DOMAIN files[b] =>
                             files[b]["blueprint.toml"] = c[1].bp
                      /\ "deps.toml" \in DOMAIN files[b] =>
                             DepNames(files[b]["deps.toml"]) = wanted
                      /\ sb[t].pc = "returned" =>
                             files[b]["final-kickstart.ks"] =
                                 FinalKickstart(sb[t].repos, sb[t].rpms,
                                                PartitionMiB(SumBytes(wanted),
                                                             SumBytes(TemplatePkgs(sb[t].ctype))),
                                                sb[t].ctype, c[1].bp,
                                                files[b]["deps.toml"]).lines

C2_Witness ==
    \E t \in Threads :
        /\ sb[t].pc = "returned"
        /\ workspace[sb[t].name] # <<>>
        /\ workspace[sb[t].name][1] # sb[t].recipe[1]
        /\ Len(commits[sb[t].name]) > sb[t].commit_id
        /\ files[sb[t].build_id]["COMMIT"] = sb[t].commit_id

\* C3: the merged-set depsolve resolves against the metadata re-opened in the
\* critical section it runs in, so the versions in the build's deps are no
\* older than what the repositories published when start_build was called
C3_DepsAsPublishedAtCall ==
    \A t \in Threads :
        /\ sb[t].pc = "depsolve_exit" =>
              /\ dnflock = t
              /\ \A i \in 1..Len(sb[t].deps) : sb[t].deps[i].version = dbo_meta
        /\ \A i \in 1..Len(sb[t].deps) : sb[t].deps[i].version >= sb[t].pub_at_call
        /\ sb[t].build_id # NoBuild /\ "deps.toml" \in DOMAIN files[sb[t].build_id] =>
              files[sb[t].build_id]["deps.toml"] = sb[t].deps

\* a build whose depsolve found the metadata not yet due and older than what
\* was published before the call
C3_Witness ==
    \E t \in Threads :
        /\ sb[t].pc = "returned"
        /\ ~sb[t].due_at_depsolve
        /\ sb[t].meta_at_depsolve < sb[t].pub_at_call
        /\ files[sb[t].build_id]["deps.toml"][1].version = sb[t].pub_at_call

StatusRank(s) == CASE s = "WAITING" -> 0 [] s = "RUNNING" -> 1 [] OTHER -> 2

EarlyErrors ==
    {"Invalid compose type", "Compose type is disabled on this architecture",
     "UnknownBlueprint", "Problem depsolving"}

\* C6: a call that raised for its compose type, for its blueprint or for a
\* depsolve conflict has no build id, and none of its steps touched
\* results/, queue/ or the blueprint store
C6_EarlyFailureLeavesNothing ==
    /\ [](\A t \in Threads :
             sb[t].pc = "raised" /\ sb[t].err \in EarlyErrors =>
                 /\ sb[t].build_id = NoBuild
                 /\ \A b \in dirs : \E u \in Threads : sb[u].build_id = b)
    /\ [][\A t \in Threads :
             sb'[t] # sb[t] /\ sb'[t].build_id = NoBuild =>
                 UNCHANGED <<commits, present, workspace, tags, used, dirs, files,
                             queue_new, queue_run>>]_vars

\* the template depsolve reported a conflict after the merged set had resolved
C6_Witness ==
    \E t \in Threads :
        /\ sb[t].pc = "raised"
        /\ sb[t].err = "Problem depsolving"
        /\ sb[t].deps # <<>>
        /\ dirs = {}

LateErrors ==
    {"No enabled repos, canceling build.", "BuildFailed", "IndexError",
     "entry requires a name"}

\* C7: a call that raised after its result directory was made raised for the
\* sources, the git rpms or a nameless user or group entry; its build has no
\* symlink in queue/, no STATUS, and the worker never has it
C7_LateFailureNeverQueued ==
    \A t \in Threads :
        sb[t].pc = "raised" =>
            /\ sb[t].err \in LateErrors <=> sb[t].build_id # NoBuild
            /\ sb[t].build_id # NoBuild =>
                  /\ sb[t].build_id \notin Range(queue_new)
                  /\ sb[t].build_id \notin queue_run
                  /\ sb[t].build_id \notin handed
                  /\ worker.build # sb[t].build_id
                  /\ status_hist[sb[t].build_id] = <<>>

C7_Witness ==
    \E t \in Threads :
        /\ sb[t].pc = "raised"
        /\ sb[t].err = "entry requires a name"
        /\ "final-kickstart.ks" \in DOMAIN files[sb[t].build_id]
        /\ sb[t].build_id \in dirs

\* what every reading operation reports of a name that is not there
Gone(n) ==
    /\ HeadOpt(n) = <<>>
    /\ WorkspaceOpt(n) = <<>>
    /\ n \notin List
    /\ Info(n).err = "UnknownBlueprint"
    /\ BlueprintDepsolveErr(n) = "UnknownBlueprint"
    /\ DiffNewestWorkspaceErr(n) = "UnknownBlueprint"
    /\ BlueprintFreezeErr(n) = "UnknownBlueprint"
    /\ TagErr(n) = "UnknownBlueprint"

\* C8: from Delete until the next New, Undo or Workspace-write of the name it
\* has no committed entry and no overlay, is not listed, info, depsolve, diff
\* NEWEST/WORKSPACE, freeze and tag report UnknownBlueprint, and no start_build
\* of it gets past reading the blueprint, so none gets a build id or a symlink
C8_DeletedIsGone ==
    /\ \A n \in Names : since_delete[n] = "deleted" => Gone(n)
    /\ \A t \in Threads :
          /\ sb[t].pc = "read_recipe_exit" => since_delete[sb[t].name] # "deleted"
          /\ sb[t].pc = "raised" /\ sb[t].err = "UnknownBlueprint" =>
                /\ sb[t].build_id = NoBuild
                /\ dirs = {}
                /\ queue_new = <<>>

\* C8 as stated: the same from Delete until the next New
C8_GoneUntilNextNew == \A n \in Names : since_delete[n] # "live" => Gone(n)

\* a start_build of a name deleted after two commits, refused
C8_Witness ==
    \E t \in Threads :
        /\ sb[t].pc = "raised"
        /\ sb[t].err = "UnknownBlueprint"
        /\ since_delete[sb[t].name] = "deleted"
        /\ Len(commits[sb[t].name]) >= 2
        /\ Gone(sb[t].name)

LastCommit(n) == commits[n][Len(commits[n])]

\* C9: a New over a committed head stores a version above the head's: the
\* head's with the patch field one up when the posted version does not exceed
\* it, the posted version otherwise
C9_NewBumpsPastHead ==
    [][\A n \in Names, v \in PostedVersions, body \in Bodies :
          New(n, v, body) /\ HeadOpt(n) # <<>> =>
              /\ VersionLT(HeadOpt(n)[1].bp.version, LastCommit(n)'.bp.version)
              /\ LastCommit(n)'.bp.version =
                     IF VersionLE(v, HeadOpt(n)[1].bp.version)
                     THEN BumpPatch(HeadOpt(n)[1].bp.version)
                     ELSE v]_vars

\* C9 as stated: the versions New has committed for a name, in order, never
\* decrease and never repeat
C9_SavedVersionsIncrease ==
    \A n \in Names :
        \A i, j \in 1..Len(commits[n]) :
            i < j /\ commits[n][i].msg = "saved" /\ commits[n][j].msg = "saved" =>
                VersionLT(commits[n][i].bp.version, commits[n][j].bp.version)

\* 0.2.0 posted over 0.0.1, then 0.0.1 posted over 0.2.0
C9_Witness ==
    \E n \in Names :
        /\ Len(commits[n]) = 3
        /\ \A i \in 1..3 : commits[n][i].msg = "saved"
        /\ commits[n][1].bp.version = <<0, 0, 1>>
        /\ commits[n][2].bp.version = <<0, 2, 0>>
        /\ commits[n][3].bp.version = <<0, 2, 1>>

\* C10: info answers with the overlay when there is one and with the
\* committed head otherwise; changed is true for an overlay that differs from
\* the head and false without an overlay; Workspace-write and Workspace-delete
\* leave the commits as they are, and after Workspace-delete info answers with
\* the committed head, changed = false
C10_InfoOverlayThenHead ==
    /\ [](\A n \in Names :
             /\ workspace[n] # <<>> =>
                   /\ Info(n).err = "" /\ Info(n).bp = workspace[n]
                   /\ (HeadOpt(n) = <<>> \/ workspace[n][1] # HeadOpt(n)[1].bp)
                          => Info(n).changed
             /\ workspace[n] = <<>> /\ HeadOpt(n) # <<>> =>
                   /\ Info(n).err = "" /\ Info(n).bp = <<HeadOpt(n)[1].bp>>
                   /\ ~Info(n).changed)
    /\ [][\A n \in Names :
             /\ workspace'[n] # workspace[n] /\ workspace'[n] # <<>> =>
                   commits' = commits /\ tags' = tags /\ Info(n)'.bp = workspace'[n]
             /\ workspace[n] # <<>> /\ workspace'[n] = <<>> /\ commits' = commits
                   /\ present'[n] /\ present[n] =>
                   /\ Info(n)'.bp = <<HeadOpt(n)[1].bp>>
                   /\ Info(n)'.bp[1].version = LastCommit(n).bp.version
                   /\ ~Info(n)'.changed
                   /\ Changes(n)' = Changes(n)]_vars

\* C10 as stated: with an overlay, changed is true
C10_ChangedAfterWrite == \A n \in Names : workspace[n] # <<>> => Info(n).changed

\* an overlay of another version than the head's written and deleted again
C10_Witness ==
    \E n \in Names :
        /\ workspace[n] = <<>>
        /\ HeadOpt(n) # <<>>
        /\ HeadOpt(n)[1].bp.version = <<0, 2, 1>>
        /\ Info(n).bp[1].version = <<0, 2, 1>>
        /\ ~Info(n).changed

\* the types the claim lists as disabled on an architecture
ListedDisabled(m) ==
    IF m \in {"arm", "armhfp"}
    THEN {"alibaba", "ami", "google", "hyper-v", "vhd", "vmdk"}
    ELSE IF m \in {"aarch64", "ppc", "ppc64", "ppc64le", "s390", "s390x"}
    THEN {"alibaba", "ami", "google", "hyper-v", "vhd", "vmdk"}
         \ (IF m = "aarch64" THEN {"ami"} ELSE {})
    ELSE {}

TypeErrors == {"Invalid compose type", "Compose type is disabled on this architecture"}

\* C11: compose_types reports every template's type, enabled iff the type is
\* not among those listed as disabled on the architecture; a start_build call
\* gets past its type check iff compose_types reports its type enabled, and
\* raises for the type otherwise
C11_EnabledIffNotListed ==
    /\ \A i \in 1..Len(AllTypes) :
          /\ compose_types(machine)[i][1] = AllTypes[i]
          /\ compose_types(machine)[i][2] = (AllTypes[i] \notin ListedDisabled(machine))
    /\ \A t \in Threads :
          sb[t].pc \notin {"idle", "validate"} =>
             /\ (sb[t].pc = "raised" /\ sb[t].err \in TypeErrors)
                   <=> <<sb[t].ctype, TRUE>> \notin Range(compose_types(machine))
             /\ sb[t].err \in TypeErrors => sb[t].locks = <<>> /\ dirs = {}

\* vhd was rejected on s390x
C11_Witness ==
    /\ machine = "s390x"
    /\ sb["t1"].ctype = "vhd"
    /\ sb["t1"].pc = "raised"
    /\ sb["t1"].err = "Compose type is disabled on this architecture"

\* the builds whose final-kickstart.ks start_build wrote to its end
KsWritten(b) ==
    /\ b \in dirs
    /\ "final-kickstart.ks" \in DOMAIN files[b]
    /\ \A t \in Threads : sb[t].build_id = b => sb[t].pc # "raised"

\* the bootloader lines of a text
BootloaderLines(text) == {i \in 1..Len(text) : text[i][1] = "bootloader"}

\* the --append argument the claim expects for value V over a template
ExpectedAppend(tmpl, V) ==
    IF BootloaderLines(tmpl) = {} THEN <<V>>
    ELSE LET old == OptArgs(tmpl[CHOOSE i \in BootloaderLines(tmpl) : TRUE], "--append=")
         IN  IF old = <<>> THEN <<V>> ELSE old \o <<" ", V>>

\* C12: when the blueprint of a build has a non-empty customizations.kernel.append
\* value V, the final-kickstart.ks start_build finished has a bootloader line
\* whose --append argument is the append arguments of the template's
\* bootloader line, one blank and V, or V alone when there are none (the
\* line is bootloader --append=V --location=none when the template has no
\* bootloader line); config.toml has extra_boot_args = V, and the empty
\* string for a blueprint without kernel.append
C12_KernelAppend ==
    \A b \in BuildIds :
       KsWritten(b) =>
          LET V == get_kernel_append(files[b]["blueprint.toml"])
              tmpl == files[b]["template.ks"]
              ks == files[b]["final-kickstart.ks"]
          IN  /\ V # "" =>
                    /\ \E i \in BootloaderLines(ks) :
                          OptArgs(ks[i], "--append=") = ExpectedAppend(tmpl, V)
                    /\ BootloaderLines(tmpl) = {} =>
                          \E i \in BootloaderLines(ks) :
                             ks[i] = <<"bootloader", "--append=", V, "--location=none">>
              /\ "config.toml" \in DOMAIN files[b] =>
                    files[b]["config.toml"].extra_boot_args = V

\* a build of a template whose bootloader line has append arguments, from a
\* blueprint with kernel.append, is queued
C12_Witness ==
    \E b \in BuildIds :
       /\ b \in Range(queue_new)
       /\ get_kernel_append(files[b]["blueprint.toml"]) = "nosmt=force"
       /\ OptArgs(files[b]["template.ks"][1], "--append=") = <<"console=ttyS0">>
       /\ \E i \in 1..Len(files[b]["final-kickstart.ks"]) :
             files[b]["final-kickstart.ks"][i] =
                <<"bootloader", "--append=", "console=ttyS0", " ", "nosmt=force",
                  "--location=mbr">>
       /\ files[b]["config.toml"].extra_boot_args = "nosmt=force"

\* the default lines the claims list, for the directives no line of the
\* template is a directive of
ListedDefaults(tmpl) ==
    LET words == {tmpl[i][1] : i \in 1..Len(tmpl)}
    IN  (IF "bootloader" \in words THEN <<>> ELSE << <<"bootloader", "--location=none">> >>)
        \o (IF "timezone" \in words THEN <<>> ELSE << <<"timezone", "UTC">> >>)
        \o (IF "lang" \in words THEN <<>> ELSE << <<"lang", "en_US.UTF-8">> >>)
        \o (IF "keyboard" \in words THEN <<>>
            ELSE << <<"keyboard", "--xlayouts", "us", "--vckeymap", "us">> >>)
        \o (IF "firewall" \in words THEN <<>> ELSE << <<"firewall", "--enabled">> >>)

\* text has the lines of part in it, one after the other
Contains(text, part) ==
    \E i \in 0..(Len(text) - Len(part)) : SubSeq(text, i + 1, i + Len(part)) = part

\* the builds start_build began to write final-kickstart.ks for
KsBegun(b) == b \in dirs /\ "final-kickstart.ks" \in DOMAIN files[b]

\* C13: for a blueprint without customizations the template body written to
\* final-kickstart.ks is the template, line for line as it was written,
\* preceded by the default lines of the directives it lacks; a firewall or a
\* services line of the template is there as written, whatever the order or
\* repetition of its ports and services
C13_NoCustomizationsKeepsTemplate ==
    \A b \in BuildIds :
       KsBegun(b) /\ files[b]["blueprint.toml"].body.cust = <<>> =>
          Contains(files[b]["final-kickstart.ks"],
                   ListedDefaults(files[b]["template.ks"]) \o files[b]["template.ks"])

\* a template whose firewall line lists 80:tcp, 22:tcp, 80:tcp, built from a
\* blueprint without customizations: the line written is another one
C13_Witness ==
    \E b \in BuildIds :
       /\ b \in Range(queue_new)
       /\ files[b]["blueprint.toml"].body.cust = <<>>
       /\ files[b]["template.ks"][1] =
             <<"firewall", "--enabled", "--port=", "80:tcp", "22:tcp", "80:tcp">>
       /\ Contains(files[b]["final-kickstart.ks"],
                   << <<"firewall", "--enabled", "--port=", "22:tcp", "80:tcp">> >>)
       /\ ~Contains(files[b]["final-kickstart.ks"], << files[b]["template.ks"][1] >>)

\* the part of final-kickstart.ks a line belongs to, by the word it starts
\* with: 1 url, 2 composer repo, 3 gitrpms repo, 4 clearpart, 5 part,
\* 6 template body, 7 resolved package, 8 git rpm, 9 %end, 10 customizations
PartOf(line) ==
    CASE line[1] = "url" -> 1
      [] line[1] = "repo" /\ line[3] = "composer" -> 2
      [] line[1] = "repo" /\ line[3] = "gitrpms" -> 3
      [] line[1] = "clearpart" -> 4
      [] line[1] = "part" -> 5
      [] line[1] = "nevra" -> 7
      [] line[1] = "git-rpm-test" -> 8
      [] line[1] = "%end" -> 9
      [] line[1] \in {"network", "sshkey", "user", "group", "rootpw"} -> 10
      [] OTHER -> 6

LinesOf(text, part) == {i \in 1..Len(text) : PartOf(text[i]) = part}

\* C14: a final-kickstart.ks start_build finished holds, in this order, one
\* url line (the first enabled source), one composer-N repo line for each
\* further enabled source with pairwise distinct N, the gitrpms repo line iff
\* git rpms were made, clearpart --all --initlabel, one part line, the
\* template body with its %packages header, the resolved dependencies in
\* resolved order, the git rpm packages, one %end, and the customizations
C14_KickstartOrder ==
    \A b \in BuildIds :
       KsWritten(b) =>
          LET ks == files[b]["final-kickstart.ks"]
              deps == files[b]["deps.toml"]
              srcs == SortedSeq(dbo_repos)
              rpms == IF "gitrpms" \in DOMAIN files[b] THEN files[b]["gitrpms"] ELSE <<>>
          IN  /\ \A i, j \in 1..Len(ks) : i < j => PartOf(ks[i]) <= PartOf(ks[j])
              /\ LinesOf(ks, 1) = {1} /\ ks[1] = <<"url", srcs[1]>>
              /\ Cardinality(LinesOf(ks, 2)) = Len(srcs) - 1
              /\ \A i \in 2..Len(srcs) : \E j \in LinesOf(ks, 2) : ks[j][5] = srcs[i]
              /\ \A i, j \in LinesOf(ks, 2) : i # j => ks[i][4] # ks[j][4]
              /\ Cardinality(LinesOf(ks, 3)) = (IF rpms = <<>> THEN 0 ELSE 1)
              /\ Cardinality(LinesOf(ks, 4)) = 1
              /\ \A i \in LinesOf(ks, 4) : ks[i] = <<"clearpart", "--all", "--initlabel">>
              /\ Cardinality(LinesOf(ks, 5)) = 1
              /\ \E i \in LinesOf(ks, 6) : ks[i] = <<"%packages">>
              /\ Cardinality(LinesOf(ks, 7)) = Len(deps)
              /\ \A k \in 1..Len(deps) :
                    \E i \in LinesOf(ks, 7) :
                       /\ ks[i][2] = deps[k].name
                       /\ Cardinality({j \in LinesOf(ks, 7) : j < i}) = k - 1
              /\ Cardinality(LinesOf(ks, 8)) = Len(rpms)
              /\ \A i \in LinesOf(ks, 8) : ks[i] \in Range(rpms)
              /\ Cardinality(LinesOf(ks, 9)) = 1
              /\ LinesOf(ks, 10) # {}

\* a queued build from three sources, with git rpms, two resolved packages
\* or more and account customizations
C14_Witness ==
    \E b \in BuildIds :
       /\ b \in Range(queue_new)
       /\ Cardinality(LinesOf(files[b]["final-kickstart.ks"], 2)) = 2
       /\ Len(files[b]["deps.toml"]) >= 2
       /\ \E c \in BuildIds :
             /\ c \in Range(queue_new)
             /\ LinesOf(files[c]["final-kickstart.ks"], 3) # {}
             /\ LinesOf(files[c]["final-kickstart.ks"], 8) # {}

\* the least integer that is at least n / d
CeilDiv(n, d) == (n + d - 1) \div d

\* C15: the size written in the part line is the least whole number of MiB
\* that is at least 1.2 times installed_size + template_size: the ceiling of
\* (the ceiling of 1.2 times the sum) over 2^20, which is also the ceiling of
\* 12 times the sum over 10 * 2^20
C15_PartitionSize ==
    \A t \in Threads :
       sb[t].build_id # NoBuild /\ KsBegun(sb[t].build_id) =>
          LET ks == files[sb[t].build_id]["final-kickstart.ks"]
              S == sb[t].installed_size + sb[t].template_size
              N == CeilDiv(CeilDiv(12 * S, 10), 1048576)
          IN  /\ \E i \in 1..Len(ks) : ks[i] = <<"part", "/", "--size", ToString(N)>>
              /\ N = CeilDiv(12 * S, 10 * 1048576)
              /\ 10 * 1048576 * N >= 12 * S
              /\ 10 * 1048576 * (N - 1) < 12 * S

\* a size just past a MiB: 1.2 * 873814 = 1048576.8 gives 2 (1.2 * 873813 =
\* 1048575.6 gives 1)
C15_Witness ==
    /\ sb["t1"].installed_size + sb["t1"].template_size = 873814
    /\ sb["t1"].pc = "returned"
    /\ \E i \in 1..Len(files[sb["t1"].build_id]["final-kickstart.ks"]) :
          files[sb["t1"].build_id]["final-kickstart.ks"][i] = <<"part", "/", "--size", "2">>

\* the user entries of a blueprint, and the entries of its sshkey list
UserEntries(bp) ==
    IF bp.body.cust # <<>> /\ Has(bp.body.cust[1], "user") THEN bp.body.cust[1].user ELSE <<>>

SshkeyEntries(bp) ==
    IF bp.body.cust # <<>> /\ Has(bp.body.cust[1], "sshkey") THEN bp.body.cust[1].sshkey
    ELSE <<>>

\* how many indexes of a sequence satisfy a test
Count(seq, Test(_)) == Cardinality({i \in 1..Len(seq) : Test(seq[i])})

\* C16: in a final-kickstart.ks start_build finished, no user line names
\* root; the sshkey --user root lines are those of the root entries that
\* have a key (and of the sshkey list); every root entry with a password has
\* its rootpw line, --iscrypted for a password starting with $2b$, $5$ or
\* $6$ and --plaintext otherwise, and there is no other rootpw line with a
\* password; every entry of another name has exactly one user --name line
C16_RootAndUserLines ==
    \A b \in BuildIds :
       KsWritten(b) =>
          LET ks == files[b]["final-kickstart.ks"]
              users == UserEntries(files[b]["blueprint.toml"])
              keys == SshkeyEntries(files[b]["blueprint.toml"])
              IsRoot(u) == u.name = "root"
          IN  /\ Count(ks, LAMBDA l : l[1] = "user" /\ l[3] = "root") = 0
              /\ Count(ks, LAMBDA l : l[1] = "sshkey" /\ l[3] = "root")
                    = Count(users, LAMBDA u : IsRoot(u) /\ Has(u, "key"))
                      + Count(keys, LAMBDA k : Has(k, "user") /\ Has(k, "key")
                                                 /\ k.user = "root")
              /\ \A i \in 1..Len(users) :
                    IsRoot(users[i]) /\ Has(users[i], "key") =>
                       \E j \in 1..Len(ks) : ks[j] = <<"sshkey", "--user", "root", users[i].key>>
              /\ Count(ks, LAMBDA l : l[1] = "rootpw" /\ l[2] # "--lock")
                    = Count(users, LAMBDA u : IsRoot(u) /\ Has(u, "password"))
              /\ \A i \in 1..Len(users) :
                    IsRoot(users[i]) /\ Has(users[i], "password") =>
                       \E j \in 1..Len(ks) :
                          ks[j] = <<"rootpw",
                                    IF users[i].password \in {"$2b$hash", "$5$hash", "$6$hash"}
                                    THEN "--iscrypted" ELSE "--plaintext",
                                    users[i].password>>
              /\ \A i \in 1..Len(users) :
                    ~IsRoot(users[i]) =>
                       Count(ks, LAMBDA l : l[1] = "user" /\ l[3] = users[i].name)
                          = Count(users, LAMBDA u : u.name = users[i].name)

\* a queued build of a blueprint with a root entry that has a hashed
\* password and a key, and two entries of other names
C16_Witness ==
    \E b \in BuildIds :
       /\ b \in Range(queue_new)
       /\ Len(UserEntries(files[b]["blueprint.toml"])) = 3
       /\ \E j \in 1..Len(files[b]["final-kickstart.ks"]) :
             files[b]["final-kickstart.ks"][j] = <<"rootpw", "--iscrypted", "$6$hash">>
       /\ \E j \in 1..Len(files[b]["final-kickstart.ks"]) :
             files[b]["final-kickstart.ks"][j] = <<"sshkey", "--user", "root", "ssh-rsa AAA">>

\* C17: when no user entry named root has a password, so that none made a
\* rootpw line, the final-kickstart.ks start_build finished ends with
\* rootpw --lock, and that is its only rootpw line; so it is for a blueprint
\* without customizations, for customizations without a user list and for a
\* root entry with a key and no password
C17_RootLockedByDefault ==
    \A b \in BuildIds :
       KsWritten(b) =>
          LET ks == files[b]["final-kickstart.ks"]
              users == UserEntries(files[b]["blueprint.toml"])
          IN  (\A i \in 1..Len(users) : ~(users[i].name = "root" /\ Has(users[i], "password")))
                 => /\ ks[Len(ks)] = <<"rootpw", "--lock">>
                    /\ Count(ks, LAMBDA l : l[1] = "rootpw") = 1

\* a queued build of a blueprint whose root entry has a key and no password
C17_Witness ==
    \E b \in BuildIds :
       /\ b \in Range(queue_new)
       /\ UserEntries(files[b]["blueprint.toml"]) = << [name |-> "root", key |-> "ssh-rsa AAA"] >>
       /\ files[b]["final-kickstart.ks"][Len(files[b]["final-kickstart.ks"])]
             = <<"rootpw", "--lock">>

\* the lines of a template that are no directive: their first word is none
\* of the six commands
NonDirectives(tmpl) == SelectSeq(tmpl, LAMBDA l : l[1] \notin Range(Directives))

\* C18: every template line that is not a bootloader, timezone, lang,
\* keyboard, firewall or services directive, the package lines firewalld and
\* langpacks-en among them, is in final-kickstart.ks as written, once, and in
\* the template's order, for every blueprint
C18_OnlyDirectivesRewritten ==
    \A b \in BuildIds :
       KsBegun(b) =>
          LET nd == NonDirectives(files[b]["template.ks"])
          IN  SelectSeq(files[b]["final-kickstart.ks"], LAMBDA l : l \in Range(nd)) = nd

\* a queued build of a template with the package langpacks-en from a
\* blueprint with locale.languages: a lang line stands where the package was
C18_Witness ==
    \E b \in BuildIds :
       /\ b \in Range(queue_new)
       /\ <<"langpacks-en">> \in Range(files[b]["template.ks"])
       /\ <<"langpacks-en">> \notin Range(files[b]["final-kickstart.ks"])
       /\ \E i, j \in 1..Len(files[b]["final-kickstart.ks"]) :
             /\ i < j
             /\ files[b]["final-kickstart.ks"][i] = <<"%packages">>
             /\ files[b]["final-kickstart.ks"][j] =
                   <<"lang", "fr_FR.UTF-8", "--addsupport=", "en_US.UTF-8">>

\* C19: a final-kickstart.ks start_build finished has at least one directive
\* line for each of bootloader, timezone, lang, keyboard and firewall,
\* whatever the template and the blueprint
C19_EveryDirectivePresent ==
    \A b \in BuildIds :
       KsWritten(b) =>
          \A d \in {"bootloader", "timezone", "lang", "keyboard", "firewall"} :
             \E i \in 1..Len(files[b]["final-kickstart.ks"]) :
                files[b]["final-kickstart.ks"][i][1] = d

\* a queued build of a template with the package langpacks-en and no lang
\* line, from a blueprint without customizations: no lang line at all
C19_Witness ==
    \E b \in BuildIds :
       /\ b \in Range(queue_new)
       /\ files[b]["blueprint.toml"].body.cust = <<>>
       /\ <<"langpacks-en">> \in Range(files[b]["final-kickstart.ks"])
       /\ \A i \in 1..Len(files[b]["final-kickstart.ks"]) :
             files[b]["final-kickstart.ks"][i][1] # "lang"

\* the with dnflock blocks of start_build, in the order it enters them
LockOrder == <<"lock", "lock_check", "lock", "lock">>

\* how many of them a call has entered when it is at a step
LocksAt(pc) ==
    CASE pc \in {"idle", "validate", "extra_pkgs"} -> 0
      [] pc \in {"extra_pkgs_exit", "read_recipe", "read_recipe_exit", "depsolve"} -> 1
      [] pc \in {"depsolve_exit", "template"} -> 2
      [] pc \in {"template_exit", "makedirs", "commit", "blueprint", "frozen", "deps",
                 "copy_template", "repos"} -> 3
      [] OTHER -> 4

\* C20: a start_build call enters the resolver lock four times, one after
\* the other: the plain lock for the extra packages, lock_check for the
\* merged-set depsolve, the plain lock for the template depsolve and the
\* plain lock for the list of enabled repos; it holds the lock only inside
\* those four blocks
C20_LockFourTimes ==
    \A t \in Threads :
       /\ sb[t].pc # "raised" => sb[t].locks = SubSeq(LockOrder, 1, LocksAt(sb[t].pc))
       /\ sb[t].pc = "raised" =>
             \E k \in 0..Len(LockOrder) : sb[t].locks = SubSeq(LockOrder, 1, k)
       /\ dnflock = t <=>
             sb[t].pc \in {"extra_pkgs_exit", "depsolve_exit", "template_exit", "repos_exit"}

\* C20 as stated: a call that returned entered the lock twice, for the
\* merged-set depsolve (may refresh) and for the template depsolve
C20_LockTwice ==
    \A t \in Threads : sb[t].pc = "returned" => sb[t].locks = <<"lock_check", "lock">>

\* a call returned after its four blocks, the lock free again
C20_Witness ==
    /\ sb["t1"].pc = "returned"
    /\ sb["t1"].locks = LockOrder
    /\ dnflock = NoThread

\* the sources final-kickstart.ks names in its url and composer repo lines
KsSourcesOf(ks) ==
    {ks[i][2] : i \in LinesOf(ks, 1)} \cup {ks[i][5] : i \in LinesOf(ks, 2)}

\* C21: the sources in the url and repo lines of a build's final-kickstart.ks
\* are the enabled sources its dependency list was resolved against, however
\* source changes and refreshes interleave with start_build
C21_SourcesAsResolved ==
    \A t \in Threads :
       sb[t].build_id # NoBuild /\ KsBegun(sb[t].build_id) =>
          KsSourcesOf(files[sb[t].build_id]["final-kickstart.ks"]) = sb[t].repos_at_depsolve

\* a queued build whose samba was resolved from s2 while its
\* final-kickstart.ks names s1 only
C21_Witness ==
    \E t \in Threads :
       /\ sb[t].pc = "returned"
       /\ sb[t].build_id \in Range(queue_new)
       /\ \E i \in 1..Len(files[sb[t].build_id]["deps.toml"]) :
             files[sb[t].build_id]["deps.toml"][i].name = "samba"
       /\ sb[t].repos_at_depsolve = {"s1", "s2"}
       /\ KsSourcesOf(files[sb[t].build_id]["final-kickstart.ks"]) = {"s1"}

\* the steps of start_build inside a "with dnflock" block
DnfBlocks == {"extra_pkgs_exit", "depsolve_exit", "template_exit", "repos_exit"}

\* C22: a start_build call never holds the blueprint-store lock and the
\* resolver lock together, and holds either only inside the block that took
\* it, which it can always leave; so calls and handlers that take one lock
\* at a time never wait on each other in a cycle, and under fair scheduling
\* no call waits for a lock for ever: from some point on every call that was
\* made has returned or raised
C22_OneLockAtATime ==
    /\ [](\A t \in Threads :
             /\ ~(gitlock = t /\ dnflock = t)
             /\ gitlock = t <=> sb[t].pc = "read_recipe_exit"
             /\ dnflock = t <=> sb[t].pc \in DnfBlocks)
    /\ <>[](\A t \in Threads : sb[t].pc \in {"idle", "returned", "raised"})

\* one call is inside its resolver block while the other is inside the
\* blueprint-store block
C22_Witness ==
    /\ dnflock = "t1" /\ sb["t1"].pc = "depsolve_exit"
    /\ gitlock = "t2" /\ sb["t2"].pc = "read_recipe_exit"

\* C23: once a start_build call has returned or raised, the directory it
\* made under results/, if any, has a STATUS file
C23_EveryResultHasStatus ==
    \A t \in Threads :
       sb[t].pc \in {"returned", "raised"} /\ sb[t].build_id \in dirs =>
          "STATUS" \in DOMAIN files[sb[t].build_id]

\* a call raised for a user entry without a name: its directory holds the
\* blueprint files and the begun final-kickstart.ks, and no STATUS
C23_Witness ==
    \E t \in Threads :
       /\ sb[t].pc = "raised"
       /\ sb[t].err = "entry requires a name"
       /\ sb[t].build_id \in dirs
       /\ {"COMMIT", "blueprint.toml", "final-kickstart.ks"} \subseteq DOMAIN files[sb[t].build_id]
       /\ "STATUS" \notin DOMAIN files[sb[t].build_id]

\* C24: a final-kickstart.ks start_build finished has exactly one rootpw
\* line, a password line or rootpw --lock, whatever the customizations, several
\* user entries named root included
C24_OneRootpw ==
    \A b \in BuildIds :
       KsWritten(b) => Count(files[b]["final-kickstart.ks"], LAMBDA l : l[1] = "rootpw") = 1

\* a queued build of a blueprint with a root entry that has a password and a
\* second root entry that has none: a password line and rootpw --lock
C24_Witness ==
    \E b \in BuildIds :
       /\ b \in Range(queue_new)
       /\ Len(UserEntries(files[b]["blueprint.toml"])) = 2
       /\ <<"rootpw", "--plaintext", "secret">> \in Range(files[b]["final-kickstart.ks"])
       /\ <<"rootpw", "--lock">> \in Range(files[b]["final-kickstart.ks"])

\* the template body of a final-kickstart.ks
BodyOf(ks) == SelectSeq(ks, LAMBDA l : PartOf(l) = 6)

\* the place of a directive in the order bootloader, timezone, lang,
\* keyboard, firewall, services
DirIndex(d) == CHOOSE i \in 1..Len(Directives) : Directives[i] = d

\* C25: the lines customize_ks_template adds stand before the first template
\* line, so before %packages; they are directive lines in the order
\* bootloader, timezone, lang, keyboard, firewall, services, one at most for
\* each, and none for a directive the template has a line of
C25_DefaultsFirstInOrder ==
    \A b \in BuildIds :
       KsWritten(b) =>
          LET body == BodyOf(files[b]["final-kickstart.ks"])
              tmpl == files[b]["template.ks"]
              n == Len(body) - Len(tmpl)
          IN  /\ n >= 0
              /\ \A i \in 1..n :
                    /\ body[i][1] \in Range(Directives)
                    /\ \A j \in 1..Len(tmpl) : tmpl[j][1] # body[i][1]
              /\ \A i, j \in 1..n : i < j => DirIndex(body[i][1]) < DirIndex(body[j][1])
              /\ \A j \in 1..Len(tmpl) :
                    tmpl[j] = <<"%packages">> => body[n + j] = <<"%packages">>
              /\ \A j \in 1..Len(tmpl) :
                    tmpl[j][1] \in Range(Directives) => body[n + j][1] = tmpl[j][1]

\* a queued build of a template without any directive, from a blueprint with
\* services: six lines added in front, services last
C25_Witness ==
    \E b \in BuildIds :
       /\ b \in Range(queue_new)
       /\ files[b]["template.ks"][1] = <<"%packages">>
       /\ Len(BodyOf(files[b]["final-kickstart.ks"])) = Len(files[b]["template.ks"]) + 6
       /\ BodyOf(files[b]["final-kickstart.ks"])[1][1] = "bootloader"
       /\ BodyOf(files[b]["final-kickstart.ks"])[6][1] = "services"
       /\ BodyOf(files[b]["final-kickstart.ks"])[7] = <<"%packages">>

\* the timezone lines of a text
TimezoneLines(text) == {i \in 1..Len(text) : text[i][1] = "timezone"}

\* the line the claim expects in front of a template without timezone line:
\* timezone UTC with the blueprint's timezone and ntpservers put in
ExpectedTimezone(recipe) ==
    LET cust == IF recipe.body.cust = <<>> THEN <<>> ELSE recipe.body.cust[1]
        tz == IF Has(cust, "timezone") THEN cust.timezone ELSE <<>>
    IN  <<"timezone", IF Has(tz, "timezone") THEN tz.timezone ELSE "UTC">>
        \o (IF Has(tz, "ntpservers") /\ tz.ntpservers # <<>>
            THEN <<"--ntpservers=">> \o tz.ntpservers ELSE <<>>)

\* C26: a timezone line of the template stands in the kickstart as it is,
\* whatever customizations.timezone holds; the blueprint's timezone and
\* ntpservers show only in the timezone line added in front of a template
\* that has none
C26_TemplateTimezoneKept ==
    \A b \in BuildIds :
       KsWritten(b) =>
          LET body == BodyOf(files[b]["final-kickstart.ks"])
              tmpl == files[b]["template.ks"]
              n == Len(body) - Len(tmpl)
          IN  IF TimezoneLines(tmpl) # {}
              THEN /\ \A j \in TimezoneLines(tmpl) : body[n + j] = tmpl[j]
                   /\ TimezoneLines(body) = {n + j : j \in TimezoneLines(tmpl)}
              ELSE \E i \in 1..n :
                      /\ TimezoneLines(body) = {i}
                      /\ body[i] = ExpectedTimezone(files[b]["blueprint.toml"])

\* a queued build of a template with a timezone line from a blueprint that
\* sets another time zone and an ntp server
C26_Witness ==
    \E b \in BuildIds :
       /\ b \in Range(queue_new)
       /\ Has(get_timezone_settings(files[b]["blueprint.toml"]), "timezone")
       /\ <<"timezone", "US/Eastern">> \in Range(files[b]["template.ks"])
       /\ <<"timezone", "US/Eastern">> \in Range(files[b]["final-kickstart.ks"])

\* the firewall lines of a text
FirewallLines(text) == {i \in 1..Len(text) : text[i][1] = "firewall"}

\* a firewall line E carries the lists of line L merged with the blueprint's
MergedFirewall(E, L, settings) ==
    IF "--disabled" \in Range(L) THEN E = <<"firewall", "--disabled">>
    ELSE /\ "--enabled" \in Range(E) /\ "--disabled" \notin Range(E)
         /\ OptArgs(E, "--port=") = SortedSeq(Range(OptArgs(L, "--port=")) \cup Range(settings.ports))
         /\ OptArgs(E, "--service=") =
               SortedSeq(Range(OptArgs(L, "--service=")) \cup Range(settings.enabled))
         /\ OptArgs(E, "--remove-service=") =
               SortedSeq(Range(OptArgs(L, "--remove-service=")) \cup Range(settings.disabled))

\* C27: the firewall line of a kickstart has, for ports, enabled services and
\* disabled services, the ascending list without duplicates of what the
\* template's firewall line (firewall --enabled when the template has none)
\* and the blueprint name; a template's firewall --disabled line stays as it
\* is, with nothing of the blueprint; merging the blueprint's settings into
\* the line once more gives the same line
C27_FirewallUnion ==
    \A b \in BuildIds :
       KsWritten(b) =>
          LET body == BodyOf(files[b]["final-kickstart.ks"])
              tmpl == files[b]["template.ks"]
              n == Len(body) - Len(tmpl)
              settings == get_firewall_settings(files[b]["blueprint.toml"])
          IN  /\ \A j \in FirewallLines(tmpl) : MergedFirewall(body[n + j], tmpl[j], settings)
              /\ FirewallLines(tmpl) = {} =>
                    \E i \in 1..n : /\ FirewallLines(body) = {i}
                                    /\ MergedFirewall(body[i], <<"firewall", "--enabled">>, settings)
              /\ \A i \in FirewallLines(body) : firewall_cmd(body[i], settings) = body[i]

\* a queued build of the template with ports 80:tcp 22:tcp 80:tcp from the
\* blueprint with port 22:tcp and service telnet
C27_Witness ==
    \E b \in BuildIds :
       /\ b \in Range(queue_new)
       /\ <<"firewall", "--enabled", "--port=", "80:tcp", "22:tcp", "80:tcp">>
             \in Range(files[b]["template.ks"])
       /\ get_firewall_settings(files[b]["blueprint.toml"]).ports = <<"22:tcp">>
       /\ <<"firewall", "--enabled", "--port=", "22:tcp", "80:tcp", "--service=", "telnet">>
             \in Range(files[b]["final-kickstart.ks"])

\* the services lines of a text
ServicesLines(text) == {i \in 1..Len(text) : text[i] # <<>> /\ text[i][1] = "services"}

\* customizations.services.<key> of a blueprint, the empty list without it
BlueprintServices(recipe, key) ==
    IF recipe.body.cust = <<>> \/ ~Has(recipe.body.cust[1], "services") THEN <<>>
    ELSE IF ~Has(recipe.body.cust[1].services, key) THEN <<>>
    ELSE recipe.body.cust[1].services[key]

\* a services line E carries the lists of line L merged with the blueprint's
MergedServices(E, L, recipe) ==
    /\ OptArgs(E, "--enabled=") =
          SortedSeq(Range(OptArgs(L, "--enabled=")) \cup Range(BlueprintServices(recipe, "enabled")))
    /\ OptArgs(E, "--disabled=") =
          SortedSeq(Range(OptArgs(L, "--disabled="))
                    \cup Range(BlueprintServices(recipe, "disabled")))

\* C28: a kickstart has a services line exactly when the template has one or
\* the blueprint's customizations.services names a service to enable or to
\* disable; without both there is no services line and no empty line; the
\* line's enabled and disabled lists are the ascending lists without
\* duplicates of the template's and the blueprint's values
C28_ServicesLine ==
    \A b \in BuildIds :
       KsWritten(b) =>
          LET ks == files[b]["final-kickstart.ks"]
              body == BodyOf(ks)
              tmpl == files[b]["template.ks"]
              n == Len(body) - Len(tmpl)
              recipe == files[b]["blueprint.toml"]
              asked == \/ BlueprintServices(recipe, "enabled") # <<>>
                       \/ BlueprintServices(recipe, "disabled") # <<>>
          IN  /\ ServicesLines(ks) # {} <=> (ServicesLines(tmpl) # {} \/ asked)
              /\ <<>> \notin Range(ks)
              /\ \A j \in ServicesLines(tmpl) : MergedServices(body[n + j], tmpl[j], recipe)
              /\ ServicesLines(tmpl) = {} /\ asked =>
                    \E i \in 1..n : /\ ServicesLines(body) = {i}
                                    /\ MergedServices(body[i], <<"services">>, recipe)

\* a queued build of a template without services line from the blueprint
\* that enables sshd and cockpit and disables telnet
C28_Witness ==
    \E b \in BuildIds :
       /\ b \in Range(queue_new)
       /\ ServicesLines(files[b]["template.ks"]) = {}
       /\ BlueprintServices(files[b]["blueprint.toml"], "enabled") = <<"sshd", "cockpit">>
       /\ <<"services", "--disabled=", "telnet", "--enabled=", "cockpit", "sshd">>
             \in Range(files[b]["final-kickstart.ks"])

\* customizations.group of a blueprint, the empty list without it
GroupEntries(bp) ==
    IF bp.body.cust # <<>> /\ Has(bp.body.cust[1], "group") THEN bp.body.cust[1].group ELSE <<>>

\* the names of the user entries other than root
UserNames(bp) ==
    {UserEntries(bp)[i].name : i \in {j \in 1..Len(UserEntries(bp)) :
                                         UserEntries(bp)[j].name # "root"}}

\* the group line the claim expects for a group entry
ExpectedGroupLine(g) ==
    IF Has(g, "gid") THEN <<"group", "--name", g.name, "--gid", g.gid>>
    ELSE <<"group", "--name", g.name>>

\* the lines expected for the entries from the i-th on
RECURSIVE ExpectedGroupLines(_, _, _)
ExpectedGroupLines(groups, names, i) ==
    IF i > Len(groups) THEN <<>>
    ELSE (IF groups[i].name \in names THEN <<>> ELSE <<ExpectedGroupLine(groups[i])>>)
         \o ExpectedGroupLines(groups, names, i + 1)

\* C29: the group lines of a kickstart are, in the order of the blueprint's
\* group list, one group --name line for every entry whose name is not the
\* name of a user entry other than root, whether that user entry is first or
\* last in the user list, with --gid exactly when the entry has a gid; a
\* group named root has its line
C29_GroupLines ==
    \A b \in BuildIds :
       KsWritten(b) =>
          SelectSeq(files[b]["final-kickstart.ks"], LAMBDA l : l[1] = "group")
             = ExpectedGroupLines(GroupEntries(files[b]["blueprint.toml"]),
                                  UserNames(files[b]["blueprint.toml"]), 1)

\* a queued build from the blueprint with users root, bart and lisa and
\* groups students, bart, root and lisa: group lines for students and root
C29_Witness ==
    \E b \in BuildIds :
       /\ b \in Range(queue_new)
       /\ Len(GroupEntries(files[b]["blueprint.toml"])) = 4
       /\ UserNames(files[b]["blueprint.toml"]) = {"bart", "lisa"}
       /\ SelectSeq(files[b]["final-kickstart.ks"], LAMBDA l : l[1] = "group")
             = << <<"group", "--name", "students", "--gid", "7">>,
                  <<"group", "--name", "root">> >>

\* the frames whose merged-set depsolve has been called
Depsolved(t) == "lock_check" \in Range(sb[t].locks)

\* C30: the project list start_build hands to the merged-set depsolve holds
\* the (name, version glob) pairs of the blueprint's modules, of its
\* packages and of the extra packages of the type with the glob *, and no
\* other; each pair once; in the order of the lowercased names; the extras
\* are empty for every type but live-iso
C30_ProjectList ==
    \A t \in Threads :
       Depsolved(t) =>
          LET recipe == sb[t].recipe[1]
              projects == sb[t].projects
              extras == IF sb[t].ctype = "live-iso" THEN sb[t].extra_pkgs ELSE {}
          IN  /\ sb[t].ctype # "live-iso" => sb[t].extra_pkgs = {}
              /\ Range(projects) =
                    (IF Has(recipe.body, "modules") THEN Range(recipe.body.modules) ELSE {})
                    \cup {<<name, "*">> : name \in recipe.body.packages \cup extras}
              /\ \A i, j \in 1..Len(projects) : projects[i] = projects[j] => i = j
              /\ \A i \in 1..(Len(projects) - 1) :
                    Rank(Lower(projects[i][1])) <= Rank(Lower(projects[i + 1][1]))

\* a live-iso build of the blueprint with modules tmux *, tmux 2.* and
\* kernel * and packages tmux and Xaw3d: four pairs, kernel once, Xaw3d last
C30_Witness ==
    \E t \in Threads :
       /\ sb[t].pc = "returned"
       /\ sb[t].ctype = "live-iso"
       /\ sb[t].extra_pkgs = {"kernel"}
       /\ sb[t].projects = << <<"kernel", "*">>, <<"tmux", "2.*">>, <<"tmux", "*">>,
                              <<"Xaw3d", "*">> >>

====
